---- MODULE Spec2Model ----
(***************************************************************************)
(* Constraint-driven text optimizer of blog_cheatkey:                      *)
(*   content/services/optimizer.py  (ContentOptimizer)                     *)
(*   content/services/generator.py  (ContentGenerator)                     *)
(*                                                                         *)
(* A text is a Python str.  It is written here run-length encoded: a       *)
(* sequence of units <<c, n>>, the character c repeated n times.  Only the *)
(* filler syllable "X" is ever written with n > 1 (long stretches of       *)
(* prose that hold no tracked term); every other character is a unit with  *)
(* n = 1.  Upper-case letters stand for Hangul syllables (the class        *)
(* [가-힣]), lower-case letters for Latin letters; "P","Q","R","S" spell    *)
(* the word of the references heading "## 참고자료".                        *)
(***************************************************************************)
EXTENDS Integers, Sequences, FiniteSets, TLC

\* ------------------------------------------------------------------------
\* Characters and their regex classes (Python 3 `re` on str)
\* ------------------------------------------------------------------------
HangulChars == {"A", "B", "C", "D", "X", "P", "Q", "R", "S"}

LatinChars == {"a", "b"}

SpaceChars == {" ", "\n"}

\* [가-힣]
IsHangul(c) == c \in HangulChars

\* \w
IsWordChar(c) == c \in HangulChars \cup LatinChars

\* \s
IsSpace(c) == c \in SpaceChars

\* ------------------------------------------------------------------------
\* Strings
\* ------------------------------------------------------------------------
\* a plain character sequence (a keyword, a term) as a text
Txt(s) == [i \in 1..Len(s) |-> <<s[i], 1>>]

\* s1 + s2
Cat(s, t) ==
    IF s = <<>> THEN t
    ELSE IF t = <<>> THEN s
    ELSE IF s[Len(s)][1] = "X" /\ t[1][1] = "X"
         THEN SubSeq(s, 1, Len(s) - 1)
              \o << <<"X", s[Len(s)][2] + t[1][2]>> >>
              \o SubSeq(t, 2, Len(t))
         ELSE s \o t

RECURSIVE CatRange(_, _, _)
\* parts[lo] + ... + parts[hi], joined by halves
CatRange(parts, lo, hi) ==
    IF lo > hi THEN <<>>
    ELSE IF lo = hi THEN parts[lo]
    ELSE LET mid == (lo + hi) \div 2
         IN  Cat(CatRange(parts, lo, mid), CatRange(parts, mid + 1, hi))

\* "X" * n
Fill(n) == IF n > 0 THEN << <<"X", n>> >> ELSE <<>>

\* s * n
Rep(s, n) == IF n <= 0 THEN <<>> ELSE CatRange([i \in 1..n |-> s], 1, n)

\* the least element of a non-empty set of integers
Min(S) == CHOOSE x \in S : \A y \in S : x <= y

\* the elements of a set S of integers in 1..n, in ascending order
SortedSeq(S, n) == SelectSeq([i \in 1..n |-> i], LAMBDA i : i \in S)

RECURSIVE SumRange(_, _, _)
\* f[lo] + ... + f[hi], summed by halves
SumRange(f, lo, hi) ==
    IF lo > hi THEN 0
    ELSE IF lo = hi THEN f[lo]
    ELSE LET mid == (lo + hi) \div 2
         IN  SumRange(f, lo, mid) + SumRange(f, mid + 1, hi)

\* len(text)
StrLen(t) == SumRange([i \in 1..Len(t) |-> t[i][2]], 1, Len(t))

\* len(text.replace(" ", ""))
LenNoSpace(t) ==
    SumRange([i \in 1..Len(t) |-> IF t[i][1] = " " THEN 0 ELSE t[i][2]],
             1, Len(t))

\* the character at unit i, "" outside the text
ChAt(t, i) == IF i >= 1 /\ i <= Len(t) THEN t[i][1] ELSE ""

\* text[i:i+len(w)] == w, for a word w that holds no filler
MatchAt(w, t, i) ==
    /\ i >= 1
    /\ i + Len(w) - 1 <= Len(t)
    /\ \A j \in 1..Len(w) : t[i + j - 1] = <<w[j], 1>>

\* re.search(r'[가-힣]', word)
HasHangul(w) == \E j \in 1..Len(w) : IsHangul(w[j])

\* \b between units k-1 and k
WordBoundary(t, k) == IsWordChar(ChAt(t, k - 1)) # IsWordChar(ChAt(t, k))

\* ------------------------------------------------------------------------
\* Term Counter
\* ------------------------------------------------------------------------
\* the pattern of _count_exact_word matches at unit i
PatternAt(w, t, i) ==
    /\ MatchAt(w, t, i)
    /\ IF HasHangul(w)
       THEN /\ ~IsHangul(ChAt(t, i - 1))
            /\ ~IsHangul(ChAt(t, i + Len(w)))
       ELSE /\ WordBoundary(t, i)
            /\ WordBoundary(t, i + Len(w))

RECURSIVE Scan(_, _, _, _)
\* of the candidate starts c[lo..hi], which ascend, the ones a scan that
\* takes c[lo] takes: a match taken rules out the starts before its end
Scan(c, width, lo, hi) ==
    IF lo > hi THEN <<>>
    ELSE IF lo = hi THEN <<c[lo]>>
    ELSE LET mid == (lo + hi) \div 2
             left == Scan(c, width, lo, mid)
             free == {j \in (mid + 1)..hi : c[j] >= left[Len(left)] + width}
         IN  IF free = {} THEN left
             ELSE left \o Scan(c, width, Min(free), hi)

\* the leftmost non-overlapping choice among the candidate starts at or
\* after unit i, each match being width units long
Leftmost(starts, width, i) ==
    LET ahead == {k \in starts : k >= i}
        c == SortedSeq(ahead, CHOOSE k \in ahead : \A j \in ahead : j <= k)
    IN  IF ahead = {} THEN <<>>
        ELSE Scan(c, width, 1, Len(c))

\* the start units of re.finditer(pattern, text), scanning from unit i
FindAll(w, t, i) ==
    IF w = <<>> THEN <<>>
    ELSE Leftmost({k \in 1..Len(t) : PatternAt(w, t, k)}, Len(w), i)

\* ContentOptimizer._count_exact_word
count_exact_word(w, t) == Len(FindAll(w, t, 1))

\* ------------------------------------------------------------------------
\* Keywords and the tokenizer (konlpy Okt, an external collaborator)
\* ------------------------------------------------------------------------
\* a one-word keyword, e.g. "부동액"
KwSimple == <<"A", "B">>

\* a compound keyword, e.g. "전기차 보조금"
KwCompound == <<"A", "B", " ", "C", "D">>

Keywords == {KwSimple, KwCompound}

\* self.okt.morphs(keyword): the tokens of the keyword, no whitespace token
okt_morphs(keyword) ==
    IF keyword = KwCompound THEN << <<"A", "B">>, <<"C", "D">> >>
    ELSE <<keyword>>

RECURSIVE SplitWs(_, _)
\* str.split(): the whitespace-separated words of s; cur is the word being read
SplitWs(s, cur) ==
    IF s = <<>> THEN (IF cur = <<>> THEN <<>> ELSE <<cur>>)
    ELSE IF IsSpace(s[1])
         THEN (IF cur = <<>> THEN <<>> ELSE <<cur>>) \o SplitWs(Tail(s), <<>>)
         ELSE SplitWs(Tail(s), Append(cur, s[1]))

\* the elements of a sequence
Range(s) == {s[i] : i \in 1..Len(s)}

\* ------------------------------------------------------------------------
\* Constraint ranges
\* ------------------------------------------------------------------------
CharMin == 1700

CharMax == 2000

TermMin == 17

TermMax == 20

\* the midpoint of the character range used by the comparators
TargetChars == 1850

\* twice the midpoint 18.5 of the term range (kept integral)
TargetMorpheme2 == 37

Abs(x) == IF x < 0 THEN -x ELSE x

\* ------------------------------------------------------------------------
\* References section
\* ------------------------------------------------------------------------
\* "## 참고자료"
RefsHeading == <<"#", "#", " ", "P", "Q", "R", "S">>

\* text.find(w, i): the first unit >= i where w occurs, 0 if none
FindFrom(w, t, i) ==
    LET at == {k \in i..Len(t) : MatchAt(w, t, k)}
    IN  IF at = {} THEN 0 ELSE Min(at)

\* str.strip()
Strip(t) ==
    LET ink == {k \in 1..Len(t) : ~IsSpace(t[k][1])}
    IN  IF ink = {} THEN <<>>
        ELSE SubSeq(t, Min(ink), CHOOSE k \in ink : \A j \in ink : j <= k)

\* ContentOptimizer.separate_content_and_refs; refs_section <<>> stands for None
separate_content_and_refs(content) ==
    LET at == FindFrom(RefsHeading, content, 1)
    IN  IF at > 0
        THEN [content_without_refs |-> Strip(SubSeq(content, 1, at - 1)),
              refs_section |-> SubSeq(content, at, Len(content))]
        ELSE [content_without_refs |-> content, refs_section |-> <<>>]

\* ------------------------------------------------------------------------
\* Content Analyzer (optimizer)
\* ------------------------------------------------------------------------
\* keyword_parts of analyze_content
KeywordParts(keyword) ==
    IF " " \in Range(keyword)
    THEN {p \in Range(SplitWs(keyword, <<>>)) : Len(p) >= 2}
    ELSE {}

\* significant_morphemes of analyze_content
SignificantMorphemes(keyword) ==
    {m \in Range(okt_morphs(keyword)) : Len(m) >= 2}

\* the keys of morpheme_counts in analyze_content
OptTrackedTerms(keyword) ==
    {keyword} \cup KeywordParts(keyword) \cup SignificantMorphemes(keyword)

\* one entry of morpheme_counts
TermInfo(n) == [count |-> n, is_valid |-> (TermMin <= n /\ n <= TermMax)]

\* ContentOptimizer.analyze_content
analyze_content(content, keyword) ==
    LET char_count == LenNoSpace(content)
        morpheme_counts ==
            [w \in OptTrackedTerms(keyword) |->
                TermInfo(count_exact_word(w, content))]
    IN  [char_count |-> char_count,
         is_valid_char_count |-> (CharMin <= char_count /\ char_count <= CharMax),
         morpheme_analysis |-> morpheme_counts,
         is_valid_morphemes |->
            \A w \in DOMAIN morpheme_counts : morpheme_counts[w].is_valid]

\* ------------------------------------------------------------------------
\* Result Comparator (optimizer)
\* ------------------------------------------------------------------------
RECURSIVE SumOver(_, _)
\* sum of f[x] over the finite set S
SumOver(f, S) ==
    IF S = {} THEN 0
    ELSE LET x == CHOOSE y \in S : TRUE IN f[x] + SumOver(f, S \ {x})

\* twice the sum of |count - 18.5| over the snapshot's terms
MorphemeScore2(a) ==
    SumOver([w \in DOMAIN a.morpheme_analysis |->
                Abs(2 * a.morpheme_analysis[w].count - TargetMorpheme2)],
            DOMAIN a.morpheme_analysis)

\* the comparator with the distance to the midpoint tested before the flags
SeoBetterDistanceFirst(new, cur) ==
    IF Abs(new.char_count - TargetChars) < Abs(cur.char_count - TargetChars)
    THEN TRUE
    ELSE IF new.is_valid_char_count /\ ~cur.is_valid_char_count THEN TRUE
    ELSE IF ~new.is_valid_char_count /\ cur.is_valid_char_count THEN FALSE
    ELSE IF new.is_valid_morphemes /\ ~cur.is_valid_morphemes THEN TRUE
    ELSE IF ~new.is_valid_morphemes /\ cur.is_valid_morphemes THEN FALSE
    ELSE MorphemeScore2(new) < MorphemeScore2(cur)

\* ContentOptimizer._is_seo_result_better
is_seo_result_better(new, cur) ==
    IF new.is_valid_char_count /\ ~cur.is_valid_char_count THEN TRUE
    ELSE IF ~new.is_valid_char_count /\ cur.is_valid_char_count THEN FALSE
    ELSE IF new.is_valid_morphemes /\ ~cur.is_valid_morphemes THEN TRUE
    ELSE IF ~new.is_valid_morphemes /\ cur.is_valid_morphemes THEN FALSE
    ELSE IF Abs(new.char_count - TargetChars) < Abs(cur.char_count - TargetChars)
         THEN TRUE
    ELSE MorphemeScore2(new) < MorphemeScore2(cur)

\* ------------------------------------------------------------------------
\* Content Analyzer and Result Comparator (generator)
\* ------------------------------------------------------------------------
\* ContentGenerator._count_exact_word
gen_count_exact_word(w, t) == Len(FindAll(w, t, 1))

\* the first unit >= i holding ">", 0 if none
NextGt(t, i) ==
    LET at == {k \in i..Len(t) : t[k][1] = ">"}
    IN  IF at = {} THEN 0 ELSE Min(at)

RECURSIVE StripTags(_, _)
\* re.sub(r'<[^>]+>', '', text), scanning from unit i
StripTags(t, i) ==
    LET tags == {k \in i..Len(t) : t[k][1] = "<" /\ NextGt(t, k + 1) > k + 1}
    IN  IF tags = {} THEN SubSeq(t, i, Len(t))
        ELSE Cat(SubSeq(t, i, Min(tags) - 1),
                 StripTags(t, NextGt(t, Min(tags) + 1) + 1))

\* re.sub(r'[^\w\s가-힣]', ' ', text)
PunctToSpace(t) ==
    [i \in 1..Len(t) |->
        IF IsWordChar(t[i][1]) \/ IsSpace(t[i][1]) THEN t[i] ELSE <<" ", 1>>]

\* ContentGenerator.analyze_morphemes; custom is the set of custom morphemes
analyze_morphemes(text0, keyword, custom) ==
    LET text == PunctToSpace(StripTags(text0, 1))
        keyword_count == gen_count_exact_word(keyword, text)
        morphemes == {m \in Range(okt_morphs(keyword)) \cup custom : Len(m) >= 2}
        entries ==
            [w \in {keyword} \cup morphemes |->
                IF w \in morphemes
                THEN TermInfo(gen_count_exact_word(w, text))
                ELSE TermInfo(keyword_count)]
        allValid == \A m \in morphemes : entries[m].is_valid
    IN  [is_valid |-> allValid,
         morpheme_analysis |-> entries,
         needs_optimization |-> ~allValid]

\* content.split("## 참고자료", 1)[0]
BeforeRefs(content) ==
    LET at == FindFrom(RefsHeading, content, 1)
    IN  IF at > 0 THEN SubSeq(content, 1, at - 1) ELSE content

\* ContentGenerator._verify_content_optimization
verify_content_optimization(content, keyword) ==
    LET content_without_refs == BeforeRefs(content)
        char_count == LenNoSpace(content_without_refs)
        is_valid_char_count == CharMin <= char_count /\ char_count <= CharMax
        morpheme_analysis == analyze_morphemes(content_without_refs, keyword, {})
    IN  [is_fully_optimized |-> is_valid_char_count /\ morpheme_analysis.is_valid,
         char_count |-> char_count,
         is_valid_char_count |-> is_valid_char_count,
         morpheme_analysis |-> morpheme_analysis,
         is_valid_morphemes |-> morpheme_analysis.is_valid,
         content_without_refs |-> content_without_refs]

\* the number of entries of a generator snapshot that are in range
ValidCount(r) ==
    Cardinality({w \in DOMAIN r.morpheme_analysis.morpheme_analysis :
                    r.morpheme_analysis.morpheme_analysis[w].is_valid})

\* ContentGenerator._is_optimization_better
is_optimization_better(new, old) ==
    IF new.is_fully_optimized /\ ~old.is_fully_optimized THEN TRUE
    ELSE IF new.is_valid_char_count /\ ~old.is_valid_char_count THEN TRUE
    ELSE IF new.is_valid_morphemes /\ ~old.is_valid_morphemes THEN TRUE
    ELSE IF ValidCount(new) > ValidCount(old) THEN TRUE
    ELSE IF /\ ~new.is_valid_char_count
            /\ ~old.is_valid_char_count
            /\ Abs(new.char_count - TargetChars) < Abs(old.char_count - TargetChars)
         THEN TRUE
    ELSE FALSE

\* ------------------------------------------------------------------------
\* Paragraphs, sentences, substrings
\* ------------------------------------------------------------------------
\* the first unit >= i that is not "\n" (Len(t) + 1 if none)
SkipNewlines(t, i) == Min({k \in i..Len(t) : t[k][1] # "\n"} \cup {Len(t) + 1})

\* the first unit >= i that is not whitespace (Len(t) + 1 if none)
SkipSpaces(t, i) == Min({k \in i..Len(t) : ~IsSpace(t[k][1])} \cup {Len(t) + 1})

\* re.split with the separators starting at the units of starts, the separator
\* that starts at unit k ending before unit after[k]
SplitAt(t, starts, after) ==
    LET ss == SortedSeq(starts, Len(t))
    IN  [k \in 1..(Len(ss) + 1) |->
            SubSeq(t, IF k = 1 THEN 1 ELSE after[ss[k - 1]],
                      IF k = Len(ss) + 1 THEN Len(t) ELSE ss[k] - 1)]

\* re.split(r'\n\n+', content)
SplitParas(t) ==
    LET starts == {k \in 1..Len(t) : /\ t[k][1] = "\n"
                                      /\ ChAt(t, k - 1) # "\n"
                                      /\ ChAt(t, k + 1) = "\n"}
    IN  SplitAt(t, starts, [k \in starts |-> SkipNewlines(t, k)])

SentenceEnd == {".", "!", "?"}

\* re.split(r'(?<=[.!?])\s+', paragraph)
SplitSentences(t) ==
    LET starts == {k \in 1..Len(t) : /\ IsSpace(t[k][1])
                                      /\ ChAt(t, k - 1) \in SentenceEnd}
    IN  SplitAt(t, starts, [k \in starts |-> SkipSpaces(t, k)])

\* sep.join(parts)
Join(parts, sep) ==
    CatRange([i \in 1..(2 * Len(parts) - 1) |->
                 IF i % 2 = 1 THEN parts[(i + 1) \div 2] ELSE sep],
             1, 2 * Len(parts) - 1)

ParaSep == Txt(<<"\n", "\n">>)

Space == Txt(<<" ">>)

\* p.strip().startswith(('#', '##', '###'))
IsHeadingPara(p) == LET q == Strip(p) IN q # <<>> /\ q[1][1] = "#"

\* every paragraph taken for a body paragraph, headings too
EveryParaNormal(p) == TRUE

IsNormalPara(p) == ~IsHeadingPara(p)

\* old occurs in t at unit i; a filler run that ends old may be the head of a
\* longer run of t (old never starts with filler where this is used)
SubstrAt(old, t, i) ==
    /\ i >= 1
    /\ i + Len(old) - 1 <= Len(t)
    /\ \A j \in 1..Len(old) :
          \/ t[i + j - 1] = old[j]
          \/ /\ j = Len(old)
             /\ old[j][1] = "X"
             /\ t[i + j - 1][1] = "X"
             /\ t[i + j - 1][2] >= old[j][2]

\* what is left of t after an occurrence of old at unit i
AfterSubstr(old, t, i) ==
    LET k == i + Len(old) - 1
        rest == SubSeq(t, k + 1, Len(t))
    IN  IF t[k] = old[Len(old)] THEN rest
        ELSE Cat(Fill(t[k][2] - old[Len(old)][2]), rest)

\* the first unit >= i of t where old occurs, 0 if none
FindSubstr(old, t, i) ==
    LET at == {k \in i..Len(t) : SubstrAt(old, t, k)}
    IN  IF old = <<>> \/ at = {} THEN 0 ELSE Min(at)

\* old in t
Contains(t, old) == FindSubstr(old, t, 1) > 0

RECURSIVE ReplaceAll(_, _, _)
\* t.replace(old, new)
ReplaceAll(t, old, new) ==
    LET at == FindSubstr(old, t, 1)
    IN  IF at = 0 THEN t
        ELSE Cat(SubSeq(t, 1, at - 1),
                 Cat(new, ReplaceAll(AfterSubstr(old, t, at), old, new)))

\* ------------------------------------------------------------------------
\* Forced adjustment: structure and headings
\* ------------------------------------------------------------------------
\* f"## {keyword} 관련 중요 정보"
SectionTitle(keyword) ==
    Cat(Txt(<<"#", "#", " ">>), Cat(Txt(keyword),
        Cat(Space, Cat(Fill(2), Cat(Space, Cat(Fill(2), Cat(Space, Fill(2))))))))

\* f"## {keyword} 활용 방법"
LastSectionTitle(keyword) ==
    Cat(Txt(<<"#", "#", " ">>), Cat(Txt(keyword),
        Cat(Space, Cat(Fill(2), Cat(Space, Fill(2))))))

RECURSIVE StructSections(_, _, _, _)
\* the loop over content_paragraphs[1:] and the last section
StructSections(cps, i, current, keyword) ==
    IF i > Len(cps)
    THEN (IF current # <<>> THEN <<LastSectionTitle(keyword)>> \o current ELSE <<>>)
    ELSE IF Len(current) >= 2
         THEN <<SectionTitle(keyword)>> \o current
              \o StructSections(cps, i + 1, <<cps[i]>>, keyword)
         ELSE StructSections(cps, i + 1, Append(current, cps[i]), keyword)

\* ContentOptimizer._improve_content_structure
improve_content_structure(content, keyword) ==
    LET paragraphs == SplitParas(content)
        headers == SelectSeq(paragraphs, IsHeadingPara)
        cps == SelectSeq(paragraphs, IsNormalPara)
    IN  IF Len(headers) < 3 /\ Len(cps) > 3 /\ headers # <<>>
        THEN Join(<<headers[1]>> \o StructSections(cps, 2, <<cps[1]>>, keyword),
                  ParaSep)
        ELSE content

\* the number of leading "#" of a line
HashCount(p) == Min({k \in 1..Len(p) : p[k][1] # "#"} \cup {Len(p) + 1}) - 1

\* the first unit >= i holding c, 0 if none
IndexOfChar(t, c, i) ==
    LET at == {k \in i..Len(t) : t[k][1] = c}
    IN  IF at = {} THEN 0 ELSE Min(at)

\* content.split('\n')
SplitLines(t) ==
    LET starts == {k \in 1..Len(t) : t[k][1] = "\n"}
    IN  SplitAt(t, starts, [k \in starts |-> k + 1])

Newline == Txt(<<"\n">>)

\* the line matches ^#{2,3}\s+(.+)$ (a heading mark, spaces, a text)
IsSectionLine(line) ==
    LET k == HashCount(line)
    IN  /\ k \in {2, 3}
        /\ ChAt(line, k + 1) = " "
        /\ SkipSpaces(line, k + 1) <= Len(line)

\* group 1 of ^#{2,3}\s+(.+)$ on a matching line
SectionLineText(line) ==
    SubSeq(line, SkipSpaces(line, HashCount(line) + 1), Len(line))

\* f"{original_heading}와 {keyword}" substituted on one line when
\* ^(#{2,3}\s+)original_heading matches it
SubHeadingLine(line, original, keyword) ==
    LET j == SkipSpaces(line, HashCount(line) + 1)
    IN  IF IsSectionLine(line) /\ original # <<>> /\ SubstrAt(original, line, j)
        THEN Cat(SubSeq(line, 1, j - 1),
                 Cat(original, Cat(Fill(1), Cat(Space, Cat(Txt(keyword),
                     AfterSubstr(original, line, j))))))
        ELSE line

\* heading_pattern.sub(r'\1' + new_heading, content)
SubHeading(content, original, keyword) ==
    LET lines == SplitLines(content)
    IN  Join([i \in 1..Len(lines) |-> SubHeadingLine(lines[i], original, keyword)],
             Newline)

RECURSIVE OptimizeSectionHeadings(_, _, _, _)
\* the loop over re.findall(r'^#{2,3}\s+(.+)$', content, re.MULTILINE)
OptimizeSectionHeadings(content, headings, i, keyword) ==
    IF i > Len(headings) THEN content
    ELSE IF ~Contains(headings[i], Txt(keyword))
         THEN OptimizeSectionHeadings(
                  SubHeading(content, Strip(headings[i]), keyword),
                  headings, i + 1, keyword)
         ELSE OptimizeSectionHeadings(content, headings, i + 1, keyword)

\* the first heading rewritten with the keyword
NewFirstHeading(first_heading, keyword) ==
    LET level == HashCount(first_heading)
        rest == SubSeq(first_heading, level + 1, Len(first_heading))
        heading_text ==
            Strip(IF rest # <<>> /\ rest[1][1] = " " THEN Tail(rest)
                  ELSE first_heading)
        comma == IndexOfChar(heading_text, ",", 1)
        new_heading ==
            IF comma > 0
            THEN Cat(SubSeq(heading_text, 1, comma - 1),
                     Cat(Txt(<<",", " ">>), Cat(Txt(keyword),
                         SubSeq(heading_text, comma + 1, Len(heading_text)))))
            ELSE Cat(heading_text, Cat(Txt(<<" ", "-", " ">>), Txt(keyword)))
    IN  Cat(Rep(Txt(<<"#">>), level), Cat(Space, new_heading))

\* ContentOptimizer._optimize_headings; raised: re.match(r'^(#+)', ...) is None
optimize_headings(content, keyword) ==
    LET paragraphs == SplitParas(content)
        hs == SelectSeq(paragraphs, IsHeadingPara)
        rewrite == hs # <<>> /\ ~Contains(hs[1], Txt(keyword))
        raised == rewrite /\ hs[1][1][1] # "#"
        content1 ==
            IF rewrite /\ ~raised
            THEN ReplaceAll(content, hs[1], NewFirstHeading(hs[1], keyword))
            ELSE content
        lines == SplitLines(content1)
        sectionLines == SelectSeq(lines, IsSectionLine)
        headings == [i \in 1..Len(sectionLines) |-> SectionLineText(sectionLines[i])]
    IN  [raised |-> raised,
         text |-> IF raised THEN content
                  ELSE OptimizeSectionHeadings(content1, headings, 1, keyword)]

\* ------------------------------------------------------------------------
\* Randomness and the noun extractor
\* ------------------------------------------------------------------------
\* random.choice(xs): the draw is fixed by r
Pick(xs, r) == xs[(r % Len(xs)) + 1]

\* unit k of t is a spelled Hangul syllable (not prose filler)
IsSpelled(t, k) == IsHangul(ChAt(t, k)) /\ ChAt(t, k) # "X"

\* the maximal runs of spelled Hangul syllables of t, in order
SpelledWords(t) ==
    LET ss == SortedSeq({k \in 1..Len(t) : IsSpelled(t, k) /\ ~IsSpelled(t, k - 1)},
                        Len(t))
        es == SortedSeq({k \in 1..Len(t) : IsSpelled(t, k) /\ ~IsSpelled(t, k + 1)},
                        Len(t))
    IN  [i \in 1..Len(ss) |-> SubSeq(t, ss[i], es[i])]

\* self.okt.nouns(text): the spelled Hangul words of the text, then one
\* two-syllable noun of the prose when the text holds prose
okt_nouns(t) ==
    SpelledWords(t)
    \o (IF \E i \in 1..Len(t) : t[i][1] = "X" /\ t[i][2] >= 2
        THEN <<Fill(2)>> ELSE <<>>)

\* ------------------------------------------------------------------------
\* Forced adjustment: character-count enforcement
\* ------------------------------------------------------------------------
RECURSIVE ProseWords(_)
\* Hangul words of the given lengths, separated by single spaces
ProseWords(lens) ==
    IF lens = <<>> THEN <<>>
    ELSE IF Len(lens) = 1 THEN Fill(lens[1])
    ELSE Cat(Fill(lens[1]), Cat(Space, ProseWords(Tail(lens))))

\* the templates of _expand_paragraph: the word lengths before {word}, and
\* after the one-syllable particle that follows {word}
ExpandTemplates ==
    << [pre |-> <<2>>,    post |-> <<2, 3, 5>>],
       [pre |-> <<>>,     post |-> <<5, 4, 2, 4>>],
       [pre |-> <<2, 4>>, post |-> <<4, 4, 3>>],
       [pre |-> <<>>,     post |-> <<2, 3, 4, 5>>],
       [pre |-> <<5>>,    post |-> <<3, 2, 5>>],
       [pre |-> <<3>>,    post |-> <<1, 3, 6>>],
       [pre |-> <<>>,     post |-> <<2, 3, 3, 6>>],
       [pre |-> <<3>>,    post |-> <<3, 1, 4, 2, 5>>] >>

\* template.format(word=word)
ExpandSentence(tpl, word) ==
    Cat(IF tpl.pre = <<>> THEN <<>> ELSE Cat(ProseWords(tpl.pre), Space),
        Cat(word, Cat(Fill(1), Cat(Space, Cat(ProseWords(tpl.post), Txt(<<".">>))))))

\* key_words of _expand_paragraph
ExpandKeyWords(paragraph) ==
    LET key_words == SelectSeq(okt_nouns(paragraph), LAMBDA w : StrLen(w) > 1)
    IN  IF key_words = <<>> THEN <<Fill(1), Fill(2), Fill(2), Fill(2)>>
        ELSE key_words

\* ContentOptimizer._expand_paragraph
expand_paragraph(paragraph, chars_to_add, rnd) ==
    LET div == chars_to_add \div 20
        sentences_to_add == IF div > 1 THEN div ELSE 1
        key_words == ExpandKeyWords(paragraph)
        expansion ==
            [i \in 1..sentences_to_add |->
                ExpandSentence(Pick(ExpandTemplates, rnd + 3 * i),
                               Pick(key_words, rnd + i))]
    IN  Cat(paragraph, Cat(Space, Join(expansion, Space)))

\* list.sort(key=...), stable: equal keys keep their order
SortAsc(xs) ==
    LET before == [i \in 1..Len(xs) |->
                      Cardinality({j \in 1..Len(xs) :
                          \/ xs[j].key < xs[i].key
                          \/ xs[j].key = xs[i].key /\ j < i})]
    IN  [k \in 1..Len(xs) |-> xs[CHOOSE i \in 1..Len(xs) : before[i] = k - 1]]

\* list.sort(key=..., reverse=True), stable: equal keys keep their order
SortDesc(xs) ==
    LET before == [i \in 1..Len(xs) |->
                      Cardinality({j \in 1..Len(xs) :
                          \/ xs[j].key > xs[i].key
                          \/ xs[j].key = xs[i].key /\ j < i})]
    IN  [k \in 1..Len(xs) |-> xs[CHOOSE i \in 1..Len(xs) : before[i] = k - 1]]

RECURSIVE SentencesToRemove(_, _, _, _)
\* the loop of _reduce_paragraph over sentence_importance
SentencesToRemove(order, i, removed_chars, chars_to_remove) ==
    IF i > Len(order) \/ removed_chars >= chars_to_remove THEN {}
    ELSE {order[i].idx}
         \cup SentencesToRemove(order, i + 1, removed_chars + order[i].chars,
                                chars_to_remove)

\* ContentOptimizer._reduce_paragraph
reduce_paragraph(paragraph, chars_to_remove) ==
    LET sentences == SplitSentences(paragraph)
        n == Len(sentences)
        sentence_importance ==
            [i \in 1..n |->
                [idx |-> i,
                 key |-> (IF i = 1 \/ i = n THEN 3 ELSE 1) * StrLen(sentences[i]),
                 chars |-> LenNoSpace(sentences[i])]]
        order == SortAsc(sentence_importance)
        gone == SentencesToRemove(order, 1, 0, chars_to_remove)
        kept == {i \in 1..n : i \notin gone}
        keptSeq == SelectSeq([i \in 1..n |-> i], LAMBDA i : i \in kept)
    IN  IF n <= 1 THEN paragraph
        ELSE Join([k \in 1..Len(keptSeq) |-> sentences[keptSeq[k]]], Space)

RECURSIVE ReduceLoop(_, _, _, _)
\* the loop of _enforce_exact_char_count_v2 over paragraph_lengths
ReduceLoop(paragraphs, order, i, remaining_chars) ==
    IF i > Len(order) \/ remaining_chars <= 0 THEN paragraphs
    ELSE LET third == order[i].key \div 3
             c == IF remaining_chars < third THEN remaining_chars ELSE third
         IN  IF c > 0
             THEN ReduceLoop(
                      [paragraphs EXCEPT ![order[i].idx] =
                          reduce_paragraph(paragraphs[order[i].idx], c)],
                      order, i + 1, remaining_chars - c)
             ELSE ReduceLoop(paragraphs, order, i + 1, remaining_chars)

RECURSIVE LastNormalPara(_, _)
\* the index of the last non-heading paragraph at or before i, 0 if none
LastNormalPara(paragraphs, i) ==
    IF i = 0 THEN 0
    ELSE IF IsNormalPara(paragraphs[i]) THEN i
    ELSE LastNormalPara(paragraphs, i - 1)

\* the enforcement with its band narrowed to the target itself
EnforceExactly(content, target_char_count, tolerance, rnd) ==
    LET current_char_count == LenNoSpace(content)
        min_chars == target_char_count
        max_chars == target_char_count
        paragraphs == SplitParas(content)
        last == LastNormalPara(paragraphs, Len(paragraphs))
        normalIdx == SelectSeq([i \in 1..Len(paragraphs) |-> i],
                               LAMBDA i : IsNormalPara(paragraphs[i]))
        paragraph_lengths ==
            [k \in 1..Len(normalIdx) |->
                [idx |-> normalIdx[k], key |-> LenNoSpace(paragraphs[normalIdx[k]])]]
    IN  IF min_chars <= current_char_count /\ current_char_count <= max_chars
        THEN content
        ELSE IF current_char_count < min_chars
        THEN Join(IF last = 0 THEN paragraphs
                  ELSE [paragraphs EXCEPT ![last] =
                          expand_paragraph(paragraphs[last],
                                           min_chars - current_char_count, rnd)],
                  ParaSep)
        ELSE Join(ReduceLoop(paragraphs,
                             SortDesc(paragraph_lengths),
                             1, current_char_count - max_chars),
                  ParaSep)

\* ContentOptimizer._enforce_exact_char_count_v2
enforce_exact_char_count_v2(content, target_char_count, tolerance, rnd) ==
    LET current_char_count == LenNoSpace(content)
        min_chars == target_char_count - tolerance
        max_chars == target_char_count + tolerance
        paragraphs == SplitParas(content)
        last == LastNormalPara(paragraphs, Len(paragraphs))
        normalIdx == SelectSeq([i \in 1..Len(paragraphs) |-> i],
                               LAMBDA i : IsNormalPara(paragraphs[i]))
        paragraph_lengths ==
            [k \in 1..Len(normalIdx) |->
                [idx |-> normalIdx[k], key |-> LenNoSpace(paragraphs[normalIdx[k]])]]
    IN  IF min_chars <= current_char_count /\ current_char_count <= max_chars
        THEN content
        ELSE IF current_char_count < min_chars
        THEN Join(IF last = 0 THEN paragraphs
                  ELSE [paragraphs EXCEPT ![last] =
                          expand_paragraph(paragraphs[last],
                                           min_chars - current_char_count, rnd)],
                  ParaSep)
        ELSE Join(ReduceLoop(paragraphs,
                             SortDesc(paragraph_lengths),
                             1, current_char_count - max_chars),
                  ParaSep)

\* ------------------------------------------------------------------------
\* Forced adjustment: term-count enforcement
\* ------------------------------------------------------------------------
\* the keys of morpheme_counts in insertion order
OptTrackedSeq(keyword) ==
    LET parts == IF " " \in Range(keyword)
                 THEN SelectSeq(SplitWs(keyword, <<>>), LAMBDA q : Len(q) >= 2)
                 ELSE <<>>
        morphs == SelectSeq(okt_morphs(keyword),
                            LAMBDA m : /\ Len(m) >= 2
                                       /\ m \notin Range(parts)
                                       /\ m # keyword)
    IN  <<keyword>> \o parts \o morphs

\* ContentOptimizer._enforce_exact_morpheme_count: the adjustment helpers
\* _add_morpheme_naturally and _remove_morpheme_selectively are not defined
\* on the class, so the first adjustment raises AttributeError
enforce_exact_morpheme_count(content, keyword) ==
    LET counts == analyze_content(content, keyword).morpheme_analysis
        needs_adjustment ==
            {w \in DOMAIN counts :
                counts[w].count < TermMin \/ counts[w].count > TermMax}
    IN  [raised |-> needs_adjustment # {}, text |-> content]

\* the characters of a spelled word given as a text
Chars(wt) == [i \in 1..Len(wt) |-> wt[i][1]]

\* result[:match.start()] + replacement + result[match.end():] for the
\* matches whose index (from 0) is in sel; k is the first match to copy
Rebuild(content, w, matches, k, sel, repl) ==
    LET n == Len(matches)
        parts ==
            [j \in 1..(n + 1) |->
                LET from == IF j = 1 THEN 1 ELSE matches[j - 1] + Len(w)
                IN  IF j > n THEN SubSeq(content, from, Len(content))
                    ELSE Cat(SubSeq(content, from, matches[j] - 1),
                             IF (j - 1) \in sel THEN repl[j - 1] ELSE Txt(w))]
    IN  CatRange(parts, k, n + 1)

\* the matches chosen for replacement: spread evenly, the first one kept
SpreadIndices(total, actual_remove) ==
    {1 + ((i * (total - 1)) \div actual_remove) : i \in 0..(actual_remove - 1)}

\* default_subs of _get_enhanced_substitutions
DefaultSubs ==
    <<ProseWords(<<2>>), ProseWords(<<2, 2>>), ProseWords(<<1, 2>>),
      ProseWords(<<2, 2>>), ProseWords(<<1, 2>>)>>

\* common_pronouns[:3] of SubstitutionGenerator.get_substitutions
CommonPronouns == <<ProseWords(<<2>>), ProseWords(<<1>>), ProseWords(<<2, 2>>)>>

\* SubstitutionGenerator._get_default_substitutions (a noun)
FallbackSubs ==
    <<ProseWords(<<2>>), ProseWords(<<1>>), ProseWords(<<2, 2>>),
      ProseWords(<<1, 2>>), ProseWords(<<2>>), ProseWords(<<2, 2>>),
      ProseWords(<<1, 2>>), ProseWords(<<1, 2>>)>>

\* SubstitutionGenerator.get_substitutions on a cache miss; api is what the
\* language-model call gave back: a failure, or the list of phrases it named
get_substitutions(api) ==
    IF ~api.ok THEN FallbackSubs
    ELSE IF \E i \in 1..Len(api.subs) : api.subs[i] \in Range(CommonPronouns)
         THEN api.subs
    ELSE api.subs \o CommonPronouns

\* ContentOptimizer._get_enhanced_substitutions
get_enhanced_substitutions(api) ==
    LET substitutions == get_substitutions(api)
    IN  IF Len(substitutions) < 5 THEN substitutions \o DefaultSubs
        ELSE substitutions

\* the reduction without the floor: as many occurrences go as were asked for
ReduceBelowFloor(content, w, count_to_remove, api, rnd) ==
    LET matches == FindAll(w, content, 1)
        total_matches == Len(matches)
        actual_remove == IF count_to_remove < total_matches
                         THEN count_to_remove ELSE total_matches
        indices_to_remove ==
            IF total_matches - 1 <= actual_remove THEN 1..(total_matches - 1)
            ELSE SpreadIndices(total_matches, actual_remove)
        replacements == get_enhanced_substitutions(api)
    IN  IF actual_remove <= 0 THEN content
        ELSE Rebuild(content, w, matches, 1, indices_to_remove,
                     [i \in 0..(total_matches - 1) |-> Pick(replacements, rnd + i)])

\* ContentOptimizer._reduce_morpheme_aggressively
reduce_morpheme_aggressively(content, w, count_to_remove, api, rnd) ==
    LET matches == FindAll(w, content, 1)
        total_matches == Len(matches)
        min_keep == TermMin
        max_removable == IF total_matches > min_keep
                         THEN total_matches - min_keep ELSE 0
        actual_remove == IF count_to_remove < max_removable
                         THEN count_to_remove ELSE max_removable
        indices_to_remove ==
            IF total_matches - 1 <= actual_remove THEN 1..(total_matches - 1)
            ELSE SpreadIndices(total_matches, actual_remove)
        replacements == get_enhanced_substitutions(api)
    IN  IF actual_remove <= 0 THEN content
        ELSE Rebuild(content, w, matches, 1, indices_to_remove,
                     [i \in 0..(total_matches - 1) |-> Pick(replacements, rnd + i)])

\* the least number of occurrences _reduce_general_morpheme leaves
GeneralMinKeep == 5

\* ContentOptimizer._generate_simple_substitutions
generate_simple_substitutions(w) ==
    <<ProseWords(<<1>>), ProseWords(<<1>>), ProseWords(<<2>>), ProseWords(<<2>>),
      ProseWords(<<2>>), ProseWords(<<2>>), ProseWords(<<2>>), ProseWords(<<2>>)>>
    \o (IF Len(w) > 3 THEN << <<>> >> ELSE <<>>)

\* ContentOptimizer._reduce_general_morpheme
reduce_general_morpheme(content, w, count_to_remove, rnd) ==
    LET matches == FindAll(w, content, 1)
        total_matches == Len(matches)
        max_removable == IF total_matches > GeneralMinKeep
                         THEN total_matches - GeneralMinKeep ELSE 0
        actual_remove == IF count_to_remove < max_removable
                         THEN count_to_remove ELSE max_removable
        indices_to_remove ==
            IF total_matches <= actual_remove + 1 THEN 1..(total_matches - 1)
            ELSE SpreadIndices(total_matches, actual_remove)
        replacements == generate_simple_substitutions(w)
    IN  IF actual_remove <= 0 THEN content
        ELSE Rebuild(content, w, matches, 1, indices_to_remove,
                     [i \in 0..(total_matches - 1) |-> Pick(replacements, rnd + i)])

\* the number of language-model calls one _reduce_morpheme_aggressively makes
AggressiveCalls(content, w, count_to_remove) ==
    IF count_to_remove > 0 /\ count_exact_word(w, content) > TermMin
    THEN 1 ELSE 0

\* a in b, for plain character sequences
InChars(a, b) ==
    \E i \in 1..(Len(b) - Len(a) + 1) : SubSeq(b, i, i + Len(a) - 1) = a

\* the elements of xs in order of first appearance
Dedup(xs) ==
    LET firsts == SelectSeq([i \in 1..Len(xs) |-> i],
                            LAMBDA i : \A j \in 1..(i - 1) : xs[j] # xs[i])
    IN  [k \in 1..Len(firsts) |-> xs[firsts[k]]]

\* significant_morphemes of _limit_all_morphemes: the nouns of the text and
\* the morphemes of the keyword, two characters or longer.  The words of the
\* prose filler are taken to be varied: none of them is over the limit.
LimitCandidates(content, keyword) ==
    LET words == SpelledWords(content)
        nouns == [i \in 1..Len(words) |-> Chars(words[i])]
    IN  Dedup(SelectSeq(nouns \o okt_morphs(keyword), LAMBDA m : Len(m) >= 2))

RECURSIVE LimitLoop(_, _, _, _, _, _, _)
\* the loop of _limit_all_morphemes over morpheme_counts
LimitLoop(acc, over, i, keyword, max_occurrences, api, rnd) ==
    IF i > Len(over) THEN acc
    ELSE LET w == over[i].w
             excess == over[i].key - max_occurrences
             is_part_of_keyword == InChars(w, keyword) \/ InChars(keyword, w)
         IN  LimitLoop(
                 IF is_part_of_keyword
                 THEN [text |-> reduce_morpheme_aggressively(acc.text, w, excess,
                                                             api, rnd),
                       api_calls |-> acc.api_calls
                                     + AggressiveCalls(acc.text, w, excess)]
                 ELSE [text |-> reduce_general_morpheme(acc.text, w, excess, rnd),
                       api_calls |-> acc.api_calls],
                 over, i + 1, keyword, max_occurrences, api, rnd)

\* morpheme_counts of _limit_all_morphemes: the candidates over the limit,
\* the most frequent first
OverLimit(content, keyword, max_occurrences) ==
    LET cands == LimitCandidates(content, keyword)
        counted == [i \in 1..Len(cands) |->
                       [w |-> cands[i], key |-> count_exact_word(cands[i], content)]]
    IN  SortDesc(SelectSeq(counted, LAMBDA e : e.key > max_occurrences))

\* ContentOptimizer._limit_all_morphemes
limit_all_morphemes(content, keyword, max_occurrences, api, rnd) ==
    LET morpheme_counts == OverLimit(content, keyword, max_occurrences)
    IN  IF morpheme_counts = <<>> THEN [text |-> content, api_calls |-> 0]
        ELSE LimitLoop([text |-> content, api_calls |-> 0], morpheme_counts, 1,
                       keyword, max_occurrences, api, rnd)

\* ------------------------------------------------------------------------
\* Forced adjustment: paragraph breaks
\* ------------------------------------------------------------------------
\* the length over which _optimize_paragraph_breaks splits a paragraph
LongParagraph == 300

\* sentences joined by threes
SentenceGroups(sentences) ==
    [g \in 1..((Len(sentences) + 2) \div 3) |->
        Join(SubSeq(sentences, 3 * g - 2,
                    IF 3 * g < Len(sentences) THEN 3 * g ELSE Len(sentences)),
             Space)]

RECURSIVE Flatten(_)
\* the concatenation of a sequence of sequences
Flatten(xss) == IF xss = <<>> THEN <<>> ELSE xss[1] \o Flatten(Tail(xss))

\* ContentOptimizer._optimize_paragraph_breaks
optimize_paragraph_breaks(content) ==
    LET paragraphs == SplitParas(content)
    IN  Join(Flatten([i \in 1..Len(paragraphs) |->
                 IF IsHeadingPara(paragraphs[i]) THEN <<paragraphs[i]>>
                 ELSE IF StrLen(paragraphs[i]) > LongParagraph
                 THEN SentenceGroups(SplitSentences(paragraphs[i]))
                 ELSE <<paragraphs[i]>>]),
             ParaSep)

\* ------------------------------------------------------------------------
\* Forced adjustment: last-resort term adjustment
\* ------------------------------------------------------------------------
\* the templates of _add_morpheme_strategically: the word lengths before
\* {morpheme}, whether a particle is glued to it, the word lengths after it
AddTemplates ==
    << [pre |-> <<2>>,    glued |-> TRUE,  post |-> <<2, 5>>],
       [pre |-> <<>>,     glued |-> TRUE,  post |-> <<2, 4, 6>>],
       [pre |-> <<5, 4>>, glued |-> FALSE, post |-> <<4, 4>>],
       [pre |-> <<>>,     glued |-> TRUE,  post |-> <<3, 3, 3, 3, 4>>],
       [pre |-> <<2, 4>>, glued |-> TRUE,  post |-> <<3, 2, 5>>] >>

\* one template filled with the term w; it ends with ". "
AddSentence(tpl, w) ==
    Cat(IF tpl.pre = <<>> THEN <<>> ELSE Cat(ProseWords(tpl.pre), Space),
        Cat(Txt(w), Cat(IF tpl.glued THEN Fill(1) ELSE <<>>,
            Cat(Space, Cat(ProseWords(tpl.post), Txt(<<".", " ">>))))))

\* content.split("\n\n")
SplitDoubleNewline(t) ==
    LET starts == Range(Leftmost({k \in 1..Len(t) : /\ t[k][1] = "\n"
                                                    /\ ChAt(t, k + 1) = "\n"},
                                 2, 1))
    IN  SplitAt(t, starts, [k \in starts |-> k + 2])

RECURSIVE InsertSentences(_, _, _, _, _)
\* add_count times: sentences.insert(insert_pos, random.choice(templates))
InsertSentences(sentences, w, add_count, rnd, k) ==
    IF k > add_count THEN sentences
    ELSE LET insert_pos == IF Len(sentences) > 2
                           THEN 1 + ((rnd + k) % (Len(sentences) - 1))
                           ELSE 1
         IN  InsertSentences(
                 SubSeq(sentences, 1, insert_pos)
                 \o <<AddSentence(Pick(AddTemplates, rnd + 2 * k), w)>>
                 \o SubSeq(sentences, insert_pos + 1, Len(sentences)),
                 w, add_count, rnd, k + 1)

\* one paragraph of _add_morpheme_strategically given add_count insertions
AddToParagraph(original, w, add_count, rnd) ==
    LET sentences == SplitSentences(original)
        additions == [k \in 1..add_count |->
                         AddSentence(Pick(AddTemplates, rnd + 2 * k), w)]
    IN  IF add_count = 0 THEN original
        ELSE IF Len(sentences) <= 1
        THEN Cat(original, Cat(Space, Join(additions, <<>>)))
        ELSE Join(InsertSentences(sentences, w, add_count, rnd, 1), Space)

\* ContentOptimizer._add_morpheme_strategically; raised: no normal paragraph,
\* and _generate_paragraph_with_morpheme is not defined on the class
add_morpheme_strategically(content, w, count_to_add, rnd) ==
    LET paragraphs == SplitDoubleNewline(content)
        normal_paragraphs ==
            SelectSeq([i \in 1..Len(paragraphs) |-> i],
                      LAMBDA i : IsNormalPara(paragraphs[i]))
        n == Len(normal_paragraphs)
        add_counts ==
            [j \in 1..n |->
                Cardinality({i \in 0..(count_to_add - 1) : i % n = j - 1})]
        slot(i) == CHOOSE j \in 1..n : normal_paragraphs[j] = i
    IN  IF n = 0 THEN [raised |-> TRUE, text |-> content]
        ELSE [raised |-> FALSE,
              text |-> Join([i \in 1..Len(paragraphs) |->
                                IF IsNormalPara(paragraphs[i])
                                THEN AddToParagraph(paragraphs[i], w,
                                                    add_counts[slot(i)], rnd + i)
                                ELSE paragraphs[i]],
                            ParaSep)]

RECURSIVE ExtremeReduce(_, _, _, _, _)
\* stage 1 of _force_adjust_morphemes_extreme
ExtremeReduce(acc, tuples, i, api, rnd) ==
    IF i > Len(tuples) THEN acc
    ELSE IF tuples[i].key <= TermMax
         THEN ExtremeReduce(acc, tuples, i + 1, api, rnd)
         ELSE ExtremeReduce(
                  [text |-> reduce_morpheme_aggressively(
                                acc.text, tuples[i].w, tuples[i].key - TermMax,
                                api, rnd),
                   api_calls |-> acc.api_calls
                                 + AggressiveCalls(acc.text, tuples[i].w,
                                                   tuples[i].key - TermMax)],
                  tuples, i + 1, api, rnd)

RECURSIVE ExtremeAdd(_, _, _, _, _)
\* stage 2 of _force_adjust_morphemes_extreme
ExtremeAdd(acc, terms, interim, i, rnd) ==
    IF i > Len(terms) \/ acc.raised THEN acc
    ELSE IF interim[terms[i]].count < TermMin
         THEN ExtremeAdd(
                  add_morpheme_strategically(
                      acc.text, terms[i], TermMin - interim[terms[i]].count, rnd),
                  terms, interim, i + 1, rnd)
         ELSE ExtremeAdd(acc, terms, interim, i + 1, rnd)

\* ContentOptimizer._force_adjust_morphemes_extreme
force_adjust_morphemes_extreme(content, keyword, morpheme_analysis, api, rnd) ==
    LET terms == OptTrackedSeq(keyword)
        morpheme_count_tuples ==
            SortDesc([i \in 1..Len(terms) |->
                         [w |-> terms[i], key |-> morpheme_analysis[terms[i]].count]])
        reduced == ExtremeReduce([text |-> content, api_calls |-> 0],
                                 morpheme_count_tuples, 1, api, rnd)
        interim_analysis == analyze_content(reduced.text, keyword)
        added == ExtremeAdd([raised |-> FALSE, text |-> reduced.text], terms,
                            interim_analysis.morpheme_analysis, 1, rnd)
    IN  [raised |-> added.raised, text |-> added.text,
         api_calls |-> reduced.api_calls]

\* ------------------------------------------------------------------------
\* Texts the drafts and the language-model replies are drawn from
\* ------------------------------------------------------------------------
\* the number of characters of a plain word that are not spaces
WordChars(w) == Cardinality({i \in 1..Len(w) : w[i] # " "})

\* a sentence of c characters (spaces apart): the term, prose, a full stop
Sentence(w, c) ==
    Cat(Txt(w), Cat(Space, Cat(Fill(c - WordChars(w) - 1), Txt(<<".">>))))

\* a paragraph of k such sentences
Paragraph(w, k, c) == Join([i \in 1..k |-> Sentence(w, c)], Space)

\* a title of 8 characters that holds the term
Title(w) == Cat(Txt(<<"#", " ">>), Cat(Txt(w), Cat(Space, Fill(7 - WordChars(w)))))

\* a title and three paragraphs: 14 + 3kc characters, 3k + 1 occurrences of w
Document(w, k, c) ==
    Join(<<Title(w), Paragraph(w, k, c), Paragraph(w, k, c), Paragraph(w, k, c)>>,
         ParaSep)

\* a references section whose one entry names the term
RefsSection(w) ==
    Cat(Txt(RefsHeading), Cat(Newline, Cat(Txt(<<"-", " ">>), Sentence(w, 40))))

\* the text with a references section after it
WithRefs(t, w) == Cat(t, Cat(ParaSep, RefsSection(w)))

\* both constraints met, at the midpoint of the character range
TextValidMid(w) == Document(w, 6, 102)

\* both constraints met, near the top of the character range
TextValidHigh(w) == Document(w, 6, 110)

\* characters in range, every term 25 times
TextTerms25(w) == Document(w, 8, 76)

\* characters in range but farther from the midpoint, every term 22 times
TextTerms22(w) == Document(w, 7, 90)

\* terms in range, too few characters
TextShort(w) == Document(w, 6, 73)

\* terms in range, too many characters
TextLong(w) == Document(w, 6, 133)

\* too few characters and the keyword 16 times, with a last paragraph that
\* names 25 times a longer noun the one-word keyword is part of
TextRelated(w) ==
    Cat(Document(w, 5, 88),
        Cat(ParaSep, Cat(Rep(Cat(Txt(w \o <<"C">>), Space), 25), Fill(125))))

\* the drafts a run may start from, for each keyword
Drafts ==
    [w \in Keywords |->
    {TextValidMid(w), TextTerms25(w), TextShort(w), TextLong(w),
     WithRefs(TextValidHigh(w), w), WithRefs(TextShort(w), w)}
    \cup (IF w = KwSimple THEN {TextRelated(w)} ELSE {})]

\* the texts the language model may answer with, for each keyword
LlmTexts ==
    [w \in Keywords |-> {TextValidHigh(w), TextTerms25(w), TextTerms22(w), <<>>}]

\* what the substitution call of the language model may give back
ApiReplies ==
    {[ok |-> FALSE, subs |-> <<>>], [ok |-> TRUE, subs |-> <<Fill(3)>>]}

\* the seeds of the random draws
MaxRnd == 1

\* ------------------------------------------------------------------------
\* One run of ContentOptimizer.optimize_existing_content_v3
\* ------------------------------------------------------------------------
VARIABLES
    keyword,            \* blog_content.keyword.keyword
    exists,             \* a BlogContent row with the given id exists
    stored,             \* that row: content, char_count, is_optimized
    rows,               \* the MorphemeAnalysis rows of that row
    pc,                 \* where the run stands
    content,            \* the draft read at the start of the run
    attempt,            \* the loop variable of the rewrite rounds
    api_result,         \* best text so far; <<>> is None or ""
    best_api_analysis,  \* <<>> is None, <<a>> the snapshot a
    optimized_content,  \* the text under forced adjustment
    refs_section,       \* the references section set aside; <<>> is None
    initial_char_valid, \* initial_analysis['is_valid_char_count']
    morpheme_attempt,   \* the loop variable of the term-fix loop
    result,             \* <<>> while running, <<r>> the returned dict r
    llm_calls,          \* rewrite requests sent to the language model
    sub_calls,          \* substitution requests sent to the language model
    attempts,           \* history: the outcome of each rewrite round
    enforce_entered,    \* history: enforce_seo_optimization was called
    probe               \* the arguments and the value of one call of a pure
                        \* function made outside a run; <<>> during a run

vars ==
    <<keyword, exists, stored, rows, pc, content, attempt, api_result,
      best_api_analysis, optimized_content, refs_section, initial_char_valid,
      morpheme_attempt, result, llm_calls, sub_calls, attempts, enforce_entered,
      probe>>

\* the variables a rewrite round does not touch
forcedVars ==
    <<optimized_content, refs_section, initial_char_valid, morpheme_attempt,
      sub_calls, enforce_entered>>

\* the variables forced adjustment does not touch
roundVars == <<attempt, api_result, best_api_analysis, llm_calls, attempts>>

\* the stored state and the inputs of the run
dbVars == <<keyword, exists, stored, rows, content, probe>>

\* for attempt in range(3)
MaxAttempts == 3

\* max_morpheme_attempts
MaxMorphemeAttempts == 3

\* the rows MorphemeAnalysis.objects.create writes for a snapshot
RowsOf(a) ==
    {[morpheme |-> w, count |-> a.morpheme_analysis[w].count,
      is_valid |-> a.morpheme_analysis[w].is_valid] :
        w \in {v \in DOMAIN a.morpheme_analysis : Len(v) >= 2}}

\* no run has started
Idle ==
    /\ pc = "idle"
    /\ content = <<>>
    /\ attempt = 0
    /\ api_result = <<>>
    /\ best_api_analysis = <<>>
    /\ optimized_content = <<>>
    /\ refs_section = <<>>
    /\ initial_char_valid = FALSE
    /\ morpheme_attempt = 0
    /\ result = <<>>
    /\ llm_calls = 0
    /\ sub_calls = 0
    /\ attempts = <<>>
    /\ enforce_entered = FALSE

Init ==
    /\ keyword \in Keywords
    /\ exists \in BOOLEAN
    /\ \E d \in Drafts[keyword] :
          /\ stored = [content |-> d,
                       char_count |-> LenNoSpace(d),
                       is_optimized |-> FALSE]
          /\ rows = RowsOf(analyze_content(d, keyword))
    /\ Idle
    /\ probe = <<>>

\* the dict returned by `except BlogContent.DoesNotExist`
NotFoundResult == [success |-> FALSE, found |-> FALSE]

\* the dict returned by `except Exception`
ErrorResult == [success |-> FALSE, found |-> TRUE]

\* the dict returned at the end of the try block
SuccessResult(final_analysis) ==
    [success |-> TRUE,
     is_valid_char_count |-> final_analysis.is_valid_char_count,
     is_valid_morphemes |-> final_analysis.is_valid_morphemes,
     char_count |-> final_analysis.char_count]

\* BlogContent.objects.get and the set-up of the rounds
Start ==
    /\ pc = "idle"
    /\ IF exists
       THEN /\ content' = stored.content
            /\ pc' = "llm"
            /\ result' = result
       ELSE /\ content' = content
            /\ pc' = "done"
            /\ result' = <<NotFoundResult>>
    /\ UNCHANGED <<keyword, exists, stored, rows, probe>>
    /\ UNCHANGED roundVars
    /\ UNCHANGED forcedVars

\* the early exit of the rounds left out: the loop always runs all its rounds
RoundNeverBreaks(analysis) == FALSE

\* if analysis['is_valid_char_count'] and analysis['is_valid_morphemes']: break
RoundBreaks(analysis) ==
    analysis.is_valid_char_count /\ analysis.is_valid_morphemes

\* where the run stands after a round
AfterRound(breaks) ==
    IF breaks \/ attempt + 1 >= MaxAttempts THEN "enforce" ELSE "llm"

\* one rewrite round whose request is answered with a text
LlmRound ==
    /\ pc = "llm"
    /\ attempt < MaxAttempts
    /\ \E text \in LlmTexts[keyword] :
          LET analysis == analyze_content(text, keyword)
              better ==
                  \/ best_api_analysis = <<>>
                  \/ is_seo_result_better(analysis, best_api_analysis[1])
          IN  /\ api_result' = IF better THEN text ELSE api_result
              /\ best_api_analysis' =
                     IF better THEN <<analysis>> ELSE best_api_analysis
              /\ attempts' = Append(attempts, [ok |-> TRUE, analysis |-> analysis])
              /\ pc' = AfterRound(RoundBreaks(analysis))
    /\ llm_calls' = llm_calls + 1
    /\ attempt' = attempt + 1
    /\ UNCHANGED <<result>>
    /\ UNCHANGED dbVars
    /\ UNCHANGED forcedVars

\* the round without its except clause: the error reaches `except Exception`
LlmRoundEscapes ==
    /\ pc = "llm"
    /\ attempt < MaxAttempts
    /\ llm_calls' = llm_calls + 1
    /\ attempts' = Append(attempts, [ok |-> FALSE])
    /\ pc' = "done"
    /\ result' = <<ErrorResult>>
    /\ UNCHANGED <<attempt, api_result, best_api_analysis>>
    /\ UNCHANGED dbVars
    /\ UNCHANGED forcedVars

\* time.sleep(5) of the except clause of a round
RoundDelay == 5

\* one rewrite round whose request raises: the except clause of the round
LlmRoundFails ==
    /\ pc = "llm"
    /\ attempt < MaxAttempts
    /\ llm_calls' = llm_calls + 1
    /\ attempts' = Append(attempts, [ok |-> FALSE, slept |-> RoundDelay])
    /\ attempt' = attempt + 1
    /\ pc' = AfterRound(FALSE)
    /\ UNCHANGED <<api_result, best_api_analysis, result>>
    /\ UNCHANGED dbVars
    /\ UNCHANGED forcedVars

\* an exception reaches `except Exception`: the run returns the error dict
Raise ==
    /\ pc' = "done"
    /\ result' = <<ErrorResult>>

\* enforce_seo_optimization is entered: the references are set aside and the
\* text is returned as it is when it already meets both constraints
EnforceStart ==
    /\ pc = "enforce"
    /\ LET content_to_optimize == IF api_result # <<>> THEN api_result ELSE content
           content_parts == separate_content_and_refs(content_to_optimize)
           initial_analysis ==
               analyze_content(content_parts.content_without_refs, keyword)
       IN  IF /\ initial_analysis.is_valid_char_count
              /\ initial_analysis.is_valid_morphemes
           THEN /\ optimized_content' = content_to_optimize
                /\ pc' = "finish"
                /\ UNCHANGED <<refs_section, initial_char_valid>>
           ELSE /\ optimized_content' = content_parts.content_without_refs
                /\ refs_section' = content_parts.refs_section
                /\ initial_char_valid' = initial_analysis.is_valid_char_count
                /\ pc' = "structure"
    /\ enforce_entered' = TRUE
    /\ UNCHANGED <<morpheme_attempt, sub_calls, result>>
    /\ UNCHANGED dbVars
    /\ UNCHANGED roundVars

\* steps 1 and 2: _improve_content_structure, _optimize_headings
EnforceStructure ==
    /\ pc = "structure"
    /\ LET headed == optimize_headings(
                         improve_content_structure(optimized_content, keyword),
                         keyword)
       IN  IF headed.raised
           THEN Raise /\ UNCHANGED optimized_content
           ELSE /\ optimized_content' = headed.text
                /\ pc' = "chars"
                /\ UNCHANGED result
    /\ UNCHANGED <<refs_section, initial_char_valid, morpheme_attempt, sub_calls,
                   enforce_entered>>
    /\ UNCHANGED dbVars
    /\ UNCHANGED roundVars

\* step 3: the character fix, made when the initial count was out of range
EnforceChars ==
    /\ pc = "chars"
    /\ IF ~initial_char_valid
       THEN \E rnd \in 0..MaxRnd :
               optimized_content' =
                   enforce_exact_char_count_v2(optimized_content, TargetChars, 50, rnd)
       ELSE UNCHANGED optimized_content
    /\ morpheme_attempt' = 0
    /\ pc' = "terms"
    /\ UNCHANGED <<refs_section, initial_char_valid, sub_calls, enforce_entered,
                   result>>
    /\ UNCHANGED dbVars
    /\ UNCHANGED roundVars

\* step 4: one iteration of the term-fix loop.  target_chars is bound only
\* when step 3 ran, so the re-fix of the characters raises otherwise
EnforceTerms ==
    /\ pc = "terms"
    /\ LET morpheme_analysis == analyze_content(optimized_content, keyword)
           fixed == enforce_exact_morpheme_count(optimized_content, keyword)
           current_analysis == analyze_content(fixed.text, keyword)
       IN  IF morpheme_analysis.is_valid_morphemes
           THEN /\ pc' = "verify"
                /\ UNCHANGED <<optimized_content, morpheme_attempt, result>>
           ELSE IF fixed.raised
           THEN Raise /\ UNCHANGED <<optimized_content, morpheme_attempt>>
           ELSE IF ~current_analysis.is_valid_char_count /\ initial_char_valid
           THEN Raise /\ UNCHANGED <<optimized_content, morpheme_attempt>>
           ELSE /\ IF ~current_analysis.is_valid_char_count
                   THEN \E rnd \in 0..MaxRnd :
                           optimized_content' =
                               enforce_exact_char_count_v2(fixed.text, TargetChars,
                                                           150, rnd)
                   ELSE optimized_content' = fixed.text
                /\ morpheme_attempt' = morpheme_attempt + 1
                /\ pc' = IF morpheme_attempt + 1 >= MaxMorphemeAttempts
                         THEN "verify" ELSE "terms"
                /\ UNCHANGED result
    /\ UNCHANGED <<refs_section, initial_char_valid, sub_calls, enforce_entered>>
    /\ UNCHANGED dbVars
    /\ UNCHANGED roundVars

\* the references section put back after the adjusted text
ReattachRefs(text, refs) ==
    IF refs # <<>> /\ ~Contains(text, Txt(RefsHeading))
    THEN Cat(text, Cat(ParaSep, refs))
    ELSE text

\* step 5: the final verification and the last-resort term adjustment
EnforceVerify ==
    /\ pc = "verify"
    /\ LET final_analysis == analyze_content(optimized_content, keyword)
       IN  IF final_analysis.is_valid_morphemes
           THEN /\ pc' = "limit"
                /\ UNCHANGED <<optimized_content, sub_calls, result>>
           ELSE \E rnd \in 0..MaxRnd, api \in ApiReplies :
                   LET forced == force_adjust_morphemes_extreme(
                                     optimized_content, keyword,
                                     final_analysis.morpheme_analysis, api, rnd)
                   IN  /\ sub_calls' = sub_calls + forced.api_calls
                       /\ IF forced.raised
                          THEN Raise /\ UNCHANGED optimized_content
                          ELSE /\ optimized_content' = forced.text
                               /\ pc' = "limit"
                               /\ UNCHANGED result
    /\ UNCHANGED <<refs_section, initial_char_valid, morpheme_attempt,
                   enforce_entered>>
    /\ UNCHANGED dbVars
    /\ UNCHANGED roundVars

\* the limit sweep: _limit_all_morphemes with max_occurrences=20
EnforceLimit ==
    /\ pc = "limit"
    /\ IF OverLimit(optimized_content, keyword, TermMax) = <<>>
       THEN UNCHANGED <<optimized_content, sub_calls>>
       ELSE \E rnd \in 0..MaxRnd, api \in ApiReplies :
               LET limited == limit_all_morphemes(optimized_content, keyword,
                                                  TermMax, api, rnd)
               IN  /\ optimized_content' = limited.text
                   /\ sub_calls' = sub_calls + limited.api_calls
    /\ pc' = "breaks"
    /\ UNCHANGED <<refs_section, initial_char_valid, morpheme_attempt,
                   enforce_entered, result>>
    /\ UNCHANGED dbVars
    /\ UNCHANGED roundVars

\* step 6: the paragraph breaks, and the references put back
EnforceBreaks ==
    /\ pc = "breaks"
    /\ optimized_content' =
           ReattachRefs(optimize_paragraph_breaks(optimized_content), refs_section)
    /\ pc' = "finish"
    /\ UNCHANGED <<refs_section, initial_char_valid, morpheme_attempt, sub_calls,
                   enforce_entered, result>>
    /\ UNCHANGED dbVars
    /\ UNCHANGED roundVars

\* the final analysis, the save of the row and of its MorphemeAnalysis rows,
\* and the success dict
Finish ==
    /\ pc = "finish"
    /\ LET final_analysis == analyze_content(optimized_content, keyword)
       IN  /\ stored' = [content |-> optimized_content,
                         char_count |-> final_analysis.char_count,
                         is_optimized |-> TRUE]
           /\ rows' = RowsOf(final_analysis)
           /\ result' = <<SuccessResult(final_analysis)>>
    /\ pc' = "done"
    /\ UNCHANGED <<keyword, exists, content, probe>>
    /\ UNCHANGED roundVars
    /\ UNCHANGED forcedVars

Next ==
    \/ Start
    \/ LlmRound
    \/ LlmRoundFails
    \/ EnforceStart
    \/ EnforceStructure
    \/ EnforceChars
    \/ EnforceTerms
    \/ EnforceVerify
    \/ EnforceLimit
    \/ EnforceBreaks
    \/ Finish

Spec == Init /\ [][Next]_vars

\* where a run can stand
Locations ==
    {"idle", "llm", "enforce", "structure", "chars", "terms", "verify", "limit",
     "breaks", "finish", "done"}

\* the position of the run: its location and its two loop counters; every
\* step of Next moves it
position == <<pc, attempt, morpheme_attempt>>

\* the run, not yet returned, moves to its next position
Running ==
    /\ pc # "done"
    /\ pc' \in Locations
    /\ attempt' \in 0..MaxAttempts
    /\ morpheme_attempt' \in 0..MaxMorphemeAttempts

\* the run is sequential code: until it returns it keeps executing
FairSpec == Spec /\ WF_position(Running)

\* ------------------------------------------------------------------------
\* Single calls of the analyzers, the comparators and the term counter
\* ------------------------------------------------------------------------
\* every variable of a run
runVars ==
    <<keyword, exists, stored, rows, pc, content, attempt, api_result,
      best_api_analysis, optimized_content, refs_section, initial_char_valid,
      morpheme_attempt, result, llm_calls, sub_calls, attempts, enforce_entered>>

\* no run is under way and no row is looked at
NoRun ==
    /\ exists = FALSE
    /\ stored = [content |-> <<>>, char_count |-> 0, is_optimized |-> FALSE]
    /\ rows = {}
    /\ Idle

\* the keyword with a comma after each of its words but the last: in such a
\* text the words of a compound keyword occur, the keyword itself does not
Apart(kw) ==
    IF kw = KwCompound THEN <<"A", "B", ",", " ", "C", "D">> ELSE kw

\* a text of chars characters (spaces apart): n times the term u, then prose
Plain(u, n, chars) ==
    Cat(Rep(Cat(Txt(u), Space), n), Fill(chars - n * WordChars(u)))

\* such a text with the first word of the keyword e more times at its head
Mixed(w, n, e, chars) ==
    LET first == SplitWs(w, <<>>)[1]
    IN  Cat(Rep(Cat(Txt(first), Space), e),
            Plain(w, n, chars - e * WordChars(first)))

\* the texts the analyzers are called on, for each keyword
AnalyzeTexts ==
    [w \in Keywords |->
        LET plain == {Plain(u, n, chars) :
                         u \in {w, Apart(w)},
                         n \in {16, 17, 20, 21},
                         chars \in {1699, 1700, 2000, 2001}}
                     \cup {Mixed(w, 17, 4, 1850)}
        IN  plain \cup {WithRefs(t, w) : t \in plain} \cup {TextValidMid(w)}]

\* the texts whose snapshots the comparators are called on, for each keyword
CompareTexts ==
    [w \in Keywords |->
        {Plain(u, n, chars) :
            u \in {w, Apart(w)}, n \in {17, 21}, chars \in {1699, 1700, 1850}}
        \cup {Mixed(w, 17, 4, chars) : chars \in {1699, 1850}}
        \cup {Plain(w, n, 1650) : n \in {17, 21}}]

\* one call of ContentOptimizer.analyze_content
AnalyzeOptimizer ==
    /\ probe.out = <<>>
    /\ probe' = [probe EXCEPT !.out =
                    <<[fn |-> "analyze_content",
                       snapshot |-> analyze_content(probe.text, keyword)]>>]
    /\ UNCHANGED runVars

\* one call of ContentGenerator._verify_content_optimization
AnalyzeGenerator ==
    /\ probe.out = <<>>
    /\ probe' = [probe EXCEPT !.out =
                    <<[fn |-> "_verify_content_optimization",
                       snapshot |->
                           verify_content_optimization(probe.text, keyword)]>>]
    /\ UNCHANGED runVars

AnalyzeInit ==
    /\ keyword \in Keywords
    /\ NoRun
    /\ \E t \in AnalyzeTexts[keyword] : probe = [text |-> t, out |-> <<>>]

AnalyzeNext == AnalyzeOptimizer \/ AnalyzeGenerator

\* the analyzers applied to given texts
AnalyzeSpec == AnalyzeInit /\ [][AnalyzeNext]_vars

\* one call of ContentOptimizer._is_seo_result_better on two snapshots
CompareOptimizer ==
    /\ probe.out = <<>>
    /\ LET new == analyze_content(probe.new, keyword)
           cur == analyze_content(probe.old, keyword)
       IN  probe' = [probe EXCEPT !.out =
                        <<[fn |-> "_is_seo_result_better",
                           new |-> [char_count |-> new.char_count,
                                    terms |-> new.morpheme_analysis],
                           old |-> [char_count |-> cur.char_count,
                                    terms |-> cur.morpheme_analysis],
                           value |-> is_seo_result_better(new, cur)]>>]
    /\ UNCHANGED runVars

\* one call of ContentGenerator._is_optimization_better on two snapshots
CompareGenerator ==
    /\ probe.out = <<>>
    /\ LET new == verify_content_optimization(probe.new, keyword)
           old == verify_content_optimization(probe.old, keyword)
       IN  probe' = [probe EXCEPT !.out =
                        <<[fn |-> "_is_optimization_better",
                           new |-> [char_count |-> new.char_count,
                                    terms |-> new.morpheme_analysis.morpheme_analysis],
                           old |-> [char_count |-> old.char_count,
                                    terms |-> old.morpheme_analysis.morpheme_analysis],
                           value |-> is_optimization_better(new, old)]>>]
    /\ UNCHANGED runVars

CompareInit ==
    /\ keyword \in Keywords
    /\ NoRun
    /\ \E a \in CompareTexts[keyword], b \in CompareTexts[keyword] :
          probe = [new |-> a, old |-> b, out |-> <<>>]

CompareNext == CompareOptimizer \/ CompareGenerator

\* the comparators applied to the snapshots of given texts
CompareSpec == CompareInit /\ [][CompareNext]_vars

\* the characters of the texts the term counter is called on: a Hangul
\* syllable, a Latin letter, a symbol, a space
CountAlphabet == {"A", "a", "+", " "}

\* the longest text the term counter is called on
MaxTextLen == 5

\* the terms the term counter is called with
CountTerms ==
    {<<"A", "A">>, <<"a", "a">>, <<"A", "+", "A">>, <<"a", "+", "a">>, <<"a", "+">>}

\* the texts the term counter is called on
CountTexts == UNION {[1..n -> CountAlphabet] : n \in 0..MaxTextLen}

\* one call of ContentOptimizer._count_exact_word
CountOptimizer ==
    /\ probe.out = <<>>
    /\ probe' = [probe EXCEPT !.out =
                    <<[fn |-> "ContentOptimizer._count_exact_word",
                       count |-> count_exact_word(probe.term, Txt(probe.text))]>>]
    /\ UNCHANGED runVars

\* one call of ContentGenerator._count_exact_word
CountGenerator ==
    /\ probe.out = <<>>
    /\ probe' = [probe EXCEPT !.out =
                    <<[fn |-> "ContentGenerator._count_exact_word",
                       count |-> gen_count_exact_word(probe.term, Txt(probe.text))]>>]
    /\ UNCHANGED runVars

CountInit ==
    /\ keyword = KwSimple
    /\ NoRun
    /\ \E w \in CountTerms, t \in CountTexts :
          probe = [term |-> w, text |-> t, out |-> <<>>]

CountNext == CountOptimizer \/ CountGenerator

\* the term counters applied to given terms and texts
CountSpec == CountInit /\ [][CountNext]_vars

\* ------------------------------------------------------------------------
\* Single calls of the character-count enforcement
\* ------------------------------------------------------------------------
\* what _enforce_exact_char_count_v2 and the procedures it calls write to the
\* log: the number of characters to add or to remove, and nothing else
char_count_logs(text, target_char_count, tolerance) ==
    LET current_char_count == LenNoSpace(text)
        min_chars == target_char_count - tolerance
        max_chars == target_char_count + tolerance
    IN  IF min_chars <= current_char_count /\ current_char_count <= max_chars
        THEN <<>>
        ELSE IF current_char_count < min_chars
        THEN <<"chars to add">>
        ELSE <<"chars to remove">>

RECURSIVE RemoveParagraphs(_, _, _, _, _)
\* the loop of force_limit_char_count that blanks whole paragraphs, the
\* longest first; len(normal_paragraphs) is the same all through the loop
RemoveParagraphs(normal_paragraphs, order, i, removed_chars, excess_chars) ==
    IF \/ i > Len(order)
       \/ removed_chars >= excess_chars
       \/ Len(normal_paragraphs) <= 3
    THEN [paragraphs |-> normal_paragraphs, removed_chars |-> removed_chars,
          removed |-> i - 1]
    ELSE RemoveParagraphs([normal_paragraphs EXCEPT ![order[i].idx] = <<>>],
                          order, i + 1, removed_chars + order[i].key,
                          excess_chars)

RECURSIVE RemoveSentences(_, _, _, _)
\* the loop of force_limit_char_count that blanks the sentences of one
\* paragraph, the longest first; len(sentences) is the same all through it
RemoveSentences(sentences, order, j, remaining_excess) ==
    IF \/ j > Len(order)
       \/ remaining_excess <= 0
       \/ Len(sentences) <= 2
    THEN [sentences |-> sentences, remaining_excess |-> remaining_excess,
          removed |-> j - 1]
    ELSE RemoveSentences([sentences EXCEPT ![order[j].idx] = <<>>], order,
                         j + 1, remaining_excess - order[j].key)

\* the (index, characters) pairs of the texts, the longest first
ByLength(texts) ==
    SortDesc([j \in 1..Len(texts) |-> [idx |-> j, key |-> LenNoSpace(texts[j])]])

RECURSIVE TrimParagraphs(_, _, _, _)
\* the loop of force_limit_char_count over the paragraphs that are left; i
\* counts from 0 and the paragraphs are ranked anew in every round
TrimParagraphs(normal_paragraphs, i, remaining_excess, removed) ==
    IF i >= Len(normal_paragraphs) \/ remaining_excess <= 0
    THEN [paragraphs |-> normal_paragraphs, removed |-> removed]
    ELSE LET paragraph_idx ==
                 ByLength(normal_paragraphs)[(i % Len(normal_paragraphs)) + 1].idx
             sentences == SplitSentences(normal_paragraphs[paragraph_idx])
             r == RemoveSentences(sentences, ByLength(sentences), 1,
                                  remaining_excess)
             left == SelectSeq(r.sentences, LAMBDA x : x # <<>>)
         IN  TrimParagraphs(
                 [normal_paragraphs EXCEPT ![paragraph_idx] = Join(left, Space)],
                 i + 1, r.remaining_excess, removed + r.removed)

\* the branch of force_limit_char_count for a text above target_max: the
\* text it returns and the messages it logs
ForceLimitOver(text, target_min, target_max) ==
    LET current_chars == LenNoSpace(text)
        target_chars == (target_min + target_max) \div 2
        excess_chars == current_chars - target_chars
        paragraphs == SplitParas(text)
        normalIdx == SelectSeq([i \in 1..Len(paragraphs) |-> i],
                               LAMBDA i : IsNormalPara(paragraphs[i]))
        normal_paragraphs == [k \in 1..Len(normalIdx) |-> paragraphs[normalIdx[k]]]
        whole == RemoveParagraphs(normal_paragraphs, ByLength(normal_paragraphs),
                                  1, 0, excess_chars)
        filtered == SelectSeq(whole.paragraphs, LAMBDA x : x # <<>>)
        trimmed == IF whole.removed_chars < excess_chars
                   THEN TrimParagraphs(filtered, 0,
                                       excess_chars - whole.removed_chars, 0)
                   ELSE [paragraphs |-> filtered, removed |-> 0]
        rank == [i \in 1..Len(paragraphs) |->
                    Cardinality({k \in 1..Len(normalIdx) : normalIdx[k] <= i})]
        keptIdx == SelectSeq([i \in 1..Len(paragraphs) |-> i],
                       LAMBDA i : \/ IsHeadingPara(paragraphs[i])
                                  \/ /\ rank[i] <= Len(trimmed.paragraphs)
                                     /\ trimmed.paragraphs[rank[i]] # <<>>)
        result_paragraphs ==
            [k \in 1..Len(keptIdx) |->
                IF IsHeadingPara(paragraphs[keptIdx[k]])
                THEN paragraphs[keptIdx[k]]
                ELSE trimmed.paragraphs[rank[keptIdx[k]]]]
    IN  [text |-> Join(result_paragraphs, ParaSep),
         logs |-> <<"chars over">>
                  \o [k \in 1..whole.removed |-> "paragraph removed"]
                  \o [k \in 1..trimmed.removed |-> "sentence removed"]
                  \o <<"chars after">>]

\* significant_nouns of force_limit_char_count
ForceLimitNouns(paragraph) ==
    LET significant_nouns == SelectSeq(okt_nouns(paragraph),
                                       LAMBDA w : StrLen(w) >= 2)
    IN  IF significant_nouns = <<>> THEN <<Fill(2), Fill(2), Fill(2), Fill(2)>>
        ELSE significant_nouns

\* the branch of force_limit_char_count for a text below target_min
ForceLimitUnder(text, target_min, rnd) ==
    LET shortage == target_min - LenNoSpace(text)
        paragraphs == SplitParas(text)
        last == LastNormalPara(paragraphs, Len(paragraphs))
        div == shortage \div 20
        sentences_to_add == IF div > 1 THEN div ELSE 1
        additional_content ==
            [i \in 1..sentences_to_add |->
                Cat(ExpandSentence(Pick(ExpandTemplates, rnd + 3 * i),
                                   Pick(ForceLimitNouns(paragraphs[last]), rnd + i)),
                    Space)]
    IN  [text |-> Join(IF last = 0 THEN paragraphs
                       ELSE [paragraphs EXCEPT ![last] =
                               Cat(paragraphs[last],
                                   Cat(Space, Join(additional_content, <<>>)))],
                       ParaSep),
         logs |-> <<"chars under", "chars after">>]

\* ContentOptimizer.force_limit_char_count, with the messages it logs
force_limit_char_count(text, target_min, target_max, rnd) ==
    LET current_chars == LenNoSpace(text)
    IN  IF current_chars <= target_max /\ current_chars >= target_min
        THEN [text |-> text, logs |-> <<>>]
        ELSE IF current_chars > target_max
        THEN ForceLimitOver(text, target_min, target_max)
        ELSE ForceLimitUnder(text, target_min, rnd)

\* the i-th heading: a heading mark and 2 + i characters of text
Heading(i) == Cat(Txt(<<"#", "#", " ">>), Fill(2 + i))

\* the i-th heading with its body on the next line, not a blank line apart
Section(i, w, k, c) == Cat(Heading(i), Cat(Newline, Paragraph(w, k, c)))

\* how the blocks of an article are laid out: "H" a heading on its own, "P" a
\* paragraph, "S" a heading and its body in one block
Layouts ==
    {<<"H", "P", "H", "P", "H", "P">>,
     <<"P", "H", "P", "P", "H">>,
     <<"H", "S", "P", "P">>,
     <<"S", "S", "S">>,
     <<"H", "P", "P", "H", "P", "P">>}

\* the bodies of a layout
Bodies(layout) == Cardinality({i \in 1..Len(layout) : layout[i] # "H"})

\* an article whose bodies have k sentences of c characters each
Article(layout, w, k, c) ==
    Join([i \in 1..Len(layout) |->
             IF layout[i] = "H" THEN Heading(i)
             ELSE IF layout[i] = "P" THEN Paragraph(w, k, c)
             ELSE Section(i, w, k, c)],
         ParaSep)

\* the characters of the bodies together: too few, in range, too many
BodyChars == {1440, 1836, 2052, 2160, 2412, 3024}

\* the sentences of a body
BodySentences == {1, 2, 3, 4, 6}

\* the texts the enforcement is called on, for each keyword
CharTexts ==
    [w \in Keywords |->
        {Article(layout, w, k, chars \div (Bodies(layout) * k)) :
            layout \in Layouts, k \in BodySentences, chars \in BodyChars}]

\* the call of enforce_seo_optimization before the term adjustment
CharEnforceFirst ==
    /\ probe.out = <<>>
    /\ \E rnd \in 0..MaxRnd :
          probe' = [probe EXCEPT !.out =
              <<[fn |-> "_enforce_exact_char_count_v2", tolerance |-> 50,
                 text |-> enforce_exact_char_count_v2(probe.content, TargetChars,
                                                      50, rnd),
                 logs |-> char_count_logs(probe.content, TargetChars, 50)]>>]
    /\ UNCHANGED runVars

\* the call of enforce_seo_optimization after a term adjustment
CharEnforceAgain ==
    /\ probe.out = <<>>
    /\ \E rnd \in 0..MaxRnd :
          probe' = [probe EXCEPT !.out =
              <<[fn |-> "_enforce_exact_char_count_v2", tolerance |-> 150,
                 text |-> enforce_exact_char_count_v2(probe.content, TargetChars,
                                                      150, rnd),
                 logs |-> char_count_logs(probe.content, TargetChars, 150)]>>]
    /\ UNCHANGED runVars

\* force_limit_char_count with the range it has by default, which is the
\* target 1850 with tolerance 150
CharForceLimit ==
    /\ probe.out = <<>>
    /\ \E rnd \in 0..MaxRnd :
          LET r == force_limit_char_count(probe.content, CharMin, CharMax, rnd)
          IN  probe' = [probe EXCEPT !.out =
                  <<[fn |-> "force_limit_char_count",
                     tolerance |-> (CharMax - CharMin) \div 2,
                     text |-> r.text, logs |-> r.logs]>>]
    /\ UNCHANGED runVars

CharInit ==
    /\ keyword \in Keywords
    /\ NoRun
    /\ \E t \in CharTexts[keyword] : probe = [content |-> t, out |-> <<>>]

CharNext == CharEnforceFirst \/ CharEnforceAgain \/ CharForceLimit

\* the character-count enforcement applied to given texts
CharSpec == CharInit /\ [][CharNext]_vars

\* ------------------------------------------------------------------------
\* Single calls of the term reduction
\* ------------------------------------------------------------------------
\* a noun that is no part of the keyword
OtherNoun(kw) == IF kw = KwSimple THEN <<"C", "D">> ELSE <<"Q", "R">>

\* the texts the term reduction is called on, for each keyword: a tracked
\* term under, at and over the range, alone or beside another noun that
\* stands at or above the ceiling
ReduceTexts ==
    [w \in Keywords |->
        {Plain(u, n, 1850) : u \in OptTrackedTerms(w), n \in {16, 17, 18, 25}}
        \cup {Cat(Plain(OtherNoun(w), m, 900), Cat(Space, Plain(w, n, 950))) :
                 m \in {21, 25}, n \in {19, 25}}
        \cup {Cat(Plain(OtherNoun(w), 20, 900), Cat(Space, Plain(w, 25, 950)))}]

\* the numbers of occurrences a caller may ask to remove
RemoveCounts == {1, 5, 8, 30}

\* what the substitution call may give back here: as in a run, or a list
\* that names the term itself or another noun of the text
ReduceReplies ==
    [w \in Keywords |->
        ApiReplies
        \cup {[ok |-> TRUE, subs |-> <<Txt(okt_morphs(w)[1])>>],
              [ok |-> TRUE, subs |-> <<Fill(3), Txt(okt_morphs(w)[1])>>],
              [ok |-> TRUE, subs |-> <<Fill(3), Txt(OtherNoun(w))>>]}]

\* the occurrences of each of the terms before and after a reduction
CountsOf(terms, before, after) ==
    {[w |-> u, before |-> count_exact_word(u, before),
      after |-> count_exact_word(u, after)] : u \in terms}

\* _reduce_morpheme_aggressively called on a tracked term
ReduceAggressively ==
    /\ probe.out = <<>>
    /\ \E rnd \in 0..MaxRnd :
          LET text == reduce_morpheme_aggressively(probe.content, probe.term,
                                                   probe.n, probe.api, rnd)
          IN  probe' = [probe EXCEPT !.out =
                  <<[fn |-> "_reduce_morpheme_aggressively",
                     text |-> text,
                     reduced |-> CountsOf({probe.term}, probe.content, text)]>>]
    /\ UNCHANGED runVars

\* _limit_all_morphemes called as enforce_seo_optimization calls it
LimitAllMorphemes ==
    /\ probe.out = <<>>
    /\ \E rnd \in 0..MaxRnd :
          LET swept == limit_all_morphemes(probe.content, keyword, TermMax,
                                           probe.api, rnd)
              over == OverLimit(probe.content, keyword, TermMax)
          IN  probe' = [probe EXCEPT !.out =
                  <<[fn |-> "_limit_all_morphemes",
                     text |-> swept.text,
                     reduced |-> CountsOf({over[i].w : i \in 1..Len(over)},
                                          probe.content, swept.text)]>>]
    /\ UNCHANGED runVars

ReduceInit ==
    /\ keyword \in Keywords
    /\ NoRun
    /\ \E t \in ReduceTexts[keyword], u \in OptTrackedTerms(keyword),
          n \in RemoveCounts, api \in ReduceReplies[keyword] :
          probe = [content |-> t, term |-> u, n |-> n, api |-> api, out |-> <<>>]

ReduceNext == ReduceAggressively \/ LimitAllMorphemes

\* the term reduction applied to given texts, terms and removal counts
ReduceSpec == ReduceInit /\ [][ReduceNext]_vars

\* ------------------------------------------------------------------------
\* Single calls of the term insertion and of the last-resort adjustment
\* ------------------------------------------------------------------------
\* a text of the keyword's two words, each e times on its own, then n times
\* the keyword, then prose
Spread(w, n, e, chars) ==
    LET words == okt_morphs(w)
        second == words[Len(words)]
    IN  Cat(Rep(Cat(Txt(second), Txt(<<",", " ">>)), e),
            Mixed(w, n, e, chars - e * (WordChars(second) + 1)))

\* the texts the adjustment is called on, for each keyword: articles that
\* never name the keyword, a text of headings only, and texts that name the
\* keyword or its words too often
AdjustTexts ==
    [w \in Keywords |->
        {Article(layout, OtherNoun(w), k, 1836 \div (Bodies(layout) * k)) :
            layout \in Layouts, k \in {1, 3}}
        \cup {Join(<<Heading(1), Heading(2)>>, ParaSep)}
        \cup {Plain(u, n, 1850) : u \in {w, Apart(w)}, n \in {17, 25}}
        \cup (IF w = KwCompound THEN {Spread(w, 18, 7, 1850)} ELSE {})]

\* _add_morpheme_strategically called as _force_adjust_morphemes_extreme
\* calls it: on a term below the range, for as many occurrences as it lacks
AddStrategically ==
    /\ probe.out = <<>>
    /\ count_exact_word(probe.term, probe.content) < TermMin
    /\ \E rnd \in 0..MaxRnd :
          LET r == add_morpheme_strategically(
                       probe.content, probe.term,
                       TermMin - count_exact_word(probe.term, probe.content), rnd)
          IN  probe' = [probe EXCEPT !.out =
                  <<[fn |-> "_add_morpheme_strategically",
                     raised |-> r.raised,
                     text |-> r.text,
                     terms |-> CountsOf({probe.term}, probe.content, r.text)]>>]
    /\ UNCHANGED runVars

\* _force_adjust_morphemes_extreme called as enforce_seo_optimization calls
\* it: with the analysis of the text
ForceAdjustExtreme ==
    /\ probe.out = <<>>
    /\ \E rnd \in 0..MaxRnd :
          LET r == force_adjust_morphemes_extreme(
                       probe.content, keyword,
                       analyze_content(probe.content, keyword).morpheme_analysis,
                       probe.api, rnd)
          IN  probe' = [probe EXCEPT !.out =
                  <<[fn |-> "_force_adjust_morphemes_extreme",
                     raised |-> r.raised,
                     text |-> r.text,
                     terms |-> CountsOf(OptTrackedTerms(keyword), probe.content,
                                        r.text)]>>]
    /\ UNCHANGED runVars

AdjustInit ==
    /\ keyword \in Keywords
    /\ NoRun
    /\ \E t \in AdjustTexts[keyword], u \in OptTrackedTerms(keyword),
          api \in ApiReplies :
          probe = [content |-> t, term |-> u, api |-> api, out |-> <<>>]

AdjustNext == AddStrategically \/ ForceAdjustExtreme

\* the term insertion and the last-resort adjustment applied to given texts
AdjustSpec == AdjustInit /\ [][AdjustNext]_vars

\* ------------------------------------------------------------------------
\* Properties of a run
\* ------------------------------------------------------------------------
\* the snapshot of the draft the run read
DraftAnalysis == analyze_content(content, keyword)

\* the snapshot of the text the run saved
FinalAnalysis == analyze_content(stored.content, keyword)

\* the run has returned the success dict
Succeeded == pc = "done" /\ result # <<>> /\ result[1].success

\* C1: a run on an existing content id never fails outright: whatever the
\* draft and whatever the text-generation service does, the run ends with a
\* success result carrying the validity flags; an unmet constraint is only
\* a flag, never an error result.
C1_NeverFailsOutright ==
    (pc = "done" /\ exists) => (result # <<>> /\ result[1].success)

\* C2: the text a run finally accepts is never strictly worse, under the
\* Result Comparator, than the original draft or any LLM attempt of the run.
C2_FinalIsBestKnown ==
    Succeeded =>
        /\ ~is_seo_result_better(DraftAnalysis, FinalAnalysis)
        /\ \A i \in 1..Len(attempts) :
              attempts[i].ok =>
                  ~is_seo_result_better(attempts[i].analysis, FinalAnalysis)

\* C3: when the draft already meets both constraints the run goes straight
\* to DONE: no text-generation call, no forced edit, the draft unchanged.
C3_ValidDraftStraightToDone ==
    (pc # "idle" /\ exists /\ RoundBreaks(DraftAnalysis)) =>
        /\ llm_calls = 0
        /\ pc \notin {"structure", "chars", "terms", "verify", "limit", "breaks"}
        /\ (pc = "done" => Succeeded /\ stored.content = content)

\* C4: a run makes at most 3 text-generation calls, and none after the
\* first round whose analysed result meets both constraints.
C4_AtMostThreeCallsAndEarlyStop ==
    /\ llm_calls <= 3
    /\ llm_calls = Len(attempts)
    /\ \A i \in 1..Len(attempts) :
          (attempts[i].ok /\ attempts[i].analysis.is_valid_char_count
                          /\ attempts[i].analysis.is_valid_morphemes)
              => i = Len(attempts)

\* a run that stopped calling after a fully valid round before the third
C4_Witness ==
    /\ pc = "done"
    /\ Len(attempts) \in {1, 2}
    /\ attempts[Len(attempts)].ok
    /\ attempts[Len(attempts)].analysis.is_valid_char_count
    /\ attempts[Len(attempts)].analysis.is_valid_morphemes

\* a step that is a rewrite round whose request raised
FailedRoundStep ==
    /\ Len(attempts') = Len(attempts) + 1
    /\ ~attempts'[Len(attempts')].ok

\* C5: a failure of the text-generation call in one round never leaves the
\* driver: best-so-far text and snapshot stay what they were, the remaining
\* rounds still run, and the run always goes on to forced adjustment and
\* terminates, even when every round fails.
C5_RoundFailureContained ==
    /\ [][FailedRoundStep =>
            /\ api_result' = api_result
            /\ best_api_analysis' = best_api_analysis
            /\ result' = <<>>
            /\ pc' = IF attempt' < 3 THEN "llm" ELSE "enforce"]_vars
    /\ (pc = "llm") ~> enforce_entered
    /\ enforce_entered ~> (pc = "done")

\* a finished run all of whose three rounds failed and that went through
\* forced adjustment
C5_Witness ==
    /\ pc = "done"
    /\ Len(attempts) = 3
    /\ \A i \in 1..3 : ~attempts[i].ok
    /\ enforce_entered

\* C6: after the rounds the retained best-so-far attempt is the best of the
\* run: no successful attempt is strictly better than it under the Result
\* Comparator.
C6_RetainedIsBestOfRun ==
    (pc \notin {"idle", "llm"} /\ \E i \in 1..Len(attempts) : attempts[i].ok) =>
        /\ best_api_analysis # <<>>
        /\ \A i \in 1..Len(attempts) :
              attempts[i].ok =>
                  ~is_seo_result_better(attempts[i].analysis, best_api_analysis[1])

\* ------------------------------------------------------------------------
\* Properties of the comparators, the analyzers and the term counter
\* ------------------------------------------------------------------------
\* the counts of a snapshot meet both constraints: the character count is in
\* 1700..2000 and every tracked term occurs 17 to 20 times
Satisfies(snap) ==
    /\ 1700 <= snap.char_count /\ snap.char_count <= 2000
    /\ \A w \in DOMAIN snap.terms :
          17 <= snap.terms[w].count /\ snap.terms[w].count <= 20

\* C7: for snapshots A and B where A meets both constraints and B does not,
\* is_better(A, B) is true and is_better(B, A) is false whatever their
\* character and term counts, for the optimizer's and the generator's
\* comparator.
C7_ValidBeatsInvalid ==
    probe.out # <<>> =>
        LET call == probe.out[1]
        IN  /\ (Satisfies(call.new) /\ ~Satisfies(call.old)) => call.value
            /\ (Satisfies(call.old) /\ ~Satisfies(call.new)) => ~call.value

\* a call of the generator's comparator whose new snapshot meets both
\* constraints at 1700 characters while the old one, at the midpoint 1850,
\* has a term 21 times
C7_Witness ==
    /\ probe.out # <<>>
    /\ probe.out[1].fn = "_is_optimization_better"
    /\ Satisfies(probe.out[1].new)
    /\ ~Satisfies(probe.out[1].old)
    /\ probe.out[1].new.char_count = 1700
    /\ probe.out[1].old.char_count = 1850
    /\ probe.out[1].value

\* the text before the references heading
Body(text) == separate_content_and_refs(text).content_without_refs

\* C8: the Content Analyzer strips the references section before counting:
\* for every text holding the references heading the snapshot of the whole
\* text equals the snapshot of the body alone.
C8_ReferencesNotCounted ==
    (/\ probe.out # <<>>
     /\ probe.out[1].fn = "analyze_content"
     /\ Contains(probe.text, Txt(RefsHeading))) =>
        probe.out[1].snapshot = analyze_content(Body(probe.text), keyword)

\* the per-term entries of a snapshot of either analyzer
EntriesOf(call) ==
    IF call.fn = "analyze_content"
    THEN call.snapshot.morpheme_analysis
    ELSE call.snapshot.morpheme_analysis.morpheme_analysis

\* C9: in every snapshot the aggregate term flag is true exactly when every
\* tracked term, the keyword itself and each component of a compound keyword
\* included, has a count in 17..20, and is_valid_char_count is true exactly
\* when char_count is in 1700..2000; for the optimizer's and the generator's
\* analyzer.
C9_FlagsMatchCounts ==
    probe.out # <<>> =>
        LET call == probe.out[1]
            entries == EntriesOf(call)
        IN  /\ call.snapshot.is_valid_char_count <=>
                  (1700 <= call.snapshot.char_count
                      /\ call.snapshot.char_count <= 2000)
            /\ call.snapshot.is_valid_morphemes <=>
                  (/\ DOMAIN entries = OptTrackedTerms(keyword)
                   /\ \A w \in DOMAIN entries :
                         17 <= entries[w].count /\ entries[w].count <= 20)

\* an occurrence of w at unit k of t that is not part of a longer word: for a
\* Hangul term no Hangul syllable on either side, for any other term no word
\* character on either side
Standalone(w, t, k) ==
    /\ MatchAt(w, t, k)
    /\ IF HasHangul(w)
       THEN ~IsHangul(ChAt(t, k - 1)) /\ ~IsHangul(ChAt(t, k + Len(w)))
       ELSE ~IsWordChar(ChAt(t, k - 1)) /\ ~IsWordChar(ChAt(t, k + Len(w)))

\* the number of non-overlapping such occurrences
StandaloneCount(w, t) ==
    Len(Leftmost({k \in 1..Len(t) : Standalone(w, t, k)}, Len(w), 1))

\* C10: count_exact(term, text) is the number of non-overlapping occurrences
\* of the term that are not part of a longer word: a term inside a longer
\* word counts 0, a standalone term counts 1, an empty text counts 0.
C10_CountsStandaloneOccurrences ==
    probe.out # <<>> =>
        probe.out[1].count = StandaloneCount(probe.term, Txt(probe.text))

\* ------------------------------------------------------------------------
\* Properties of the character-count enforcement
\* ------------------------------------------------------------------------
\* the call that was made, on a text above the range of its tolerance
OverLengthCall ==
    /\ probe.out # <<>>
    /\ LenNoSpace(probe.content) > TargetChars + probe.out[1].tolerance

\* the log says that the floor on what is left of the text was reached
FloorLogged(logs) == \E i \in 1..Len(logs) : logs[i] = "floor reached"

\* C11: a text above the range comes back within tolerance of the target, or
\* else the log says that the floor on what may be removed was reached; it
\* never comes back out of the range without that being logged
C11_OverLengthBroughtIntoRange ==
    OverLengthCall =>
        LET call == probe.out[1]
            n == LenNoSpace(call.text)
        IN  \/ /\ TargetChars - call.tolerance <= n
               /\ n <= TargetChars + call.tolerance
            \/ FloorLogged(call.logs)

\* the heading paragraphs of a text, in their order
HeadingsOf(text) == SelectSeq(SplitParas(text), IsHeadingPara)

RECURSIVE IsSubsequence(_, _)
\* the members of xs occur in ys, in the order they have in xs
IsSubsequence(xs, ys) ==
    IF xs = <<>> THEN TRUE
    ELSE IF ys = <<>> THEN FALSE
    ELSE IF Head(xs) = Head(ys) THEN IsSubsequence(Tail(xs), Tail(ys))
    ELSE IsSubsequence(xs, Tail(ys))

\* C12: whatever is removed from a text above the range, every heading
\* paragraph of it is a paragraph of the result, unchanged, and the headings
\* keep their relative order
C12_HeadingsKept ==
    OverLengthCall =>
        IsSubsequence(HeadingsOf(probe.content), SplitParas(probe.out[1].text))

\* a text above the range with two headings or more came back shorter
C12_Witness ==
    /\ OverLengthCall
    /\ Len(HeadingsOf(probe.content)) >= 2
    /\ LenNoSpace(probe.out[1].text) < LenNoSpace(probe.content)

\* ------------------------------------------------------------------------
\* Properties of the term reduction
\* ------------------------------------------------------------------------
\* C13: a reduction leaves of every term it reduces at least 17 occurrences,
\* or all there were when there were fewer, however many it was asked to
\* remove: no more than the count less 17 are removed
C13_FloorKept ==
    probe.out # <<>> =>
        \A e \in probe.out[1].reduced :
            e.after >= (IF e.before < TermMin THEN e.before ELSE TermMin)

\* more removals were asked for than the floor allows, and the term was
\* brought down to the floor
C13_Witness ==
    /\ probe.out # <<>>
    /\ probe.out[1].fn = "_reduce_morpheme_aggressively"
    /\ \E e \in probe.out[1].reduced :
          /\ e.before > TermMin
          /\ probe.n > e.before - TermMin
          /\ e.after = TermMin

\* ------------------------------------------------------------------------
\* Properties of the term insertion and of the last-resort adjustment
\* ------------------------------------------------------------------------
\* C14: when a tracked term that the text never names is inserted, one
\* sentence for each occurrence short of 17, the call comes back with a text
\* in which the term's counter finds 17 to 20 occurrences
C14_InsertionReachesRange ==
    probe.out # <<>> =>
        \A e \in probe.out[1].terms :
            e.before = 0 =>
                /\ ~probe.out[1].raised
                /\ TermMin <= e.after
                /\ e.after <= TermMax

\* C15: when the two words of a compound keyword are each counted 25 times,
\* the last-resort adjustment comes back with a text in which each word
\* and the keyword itself are all counted 17 to 20 times
C15_CompoundAllInRange ==
    (/\ probe.out # <<>>
     /\ probe.out[1].fn = "_force_adjust_morphemes_extreme"
     /\ keyword = KwCompound
     /\ \A e \in probe.out[1].terms : e.w # keyword => e.before = 25) =>
        /\ ~probe.out[1].raised
        /\ \A e \in probe.out[1].terms :
              TermMin <= e.after /\ e.after <= TermMax

\* ------------------------------------------------------------------------
\* Further properties of a run
\* ------------------------------------------------------------------------
\* C16: the forced adjustment works on the text alone: at no point of a run
\* has a step of enforce_seo_optimization called the language model
C16_ForcedAdjustmentCallsNoService == sub_calls = 0


\* C17: for every draft that has a references section, the text a run
\* finally accepts ends with that section, unit for unit as it stood in the
\* draft, and names the references heading nowhere before it.
C17_ReferencesKeptAsTrailingBlock ==
    (Succeeded /\ separate_content_and_refs(content).refs_section # <<>>)
        => separate_content_and_refs(stored.content).refs_section
               = separate_content_and_refs(content).refs_section


\* ------------------------------------------------------------------------
\* One call of ContentGenerator.generate_content
\* ------------------------------------------------------------------------
\* self.max_retries
max_retries == 5

\* self.retry_delay
retry_delay == 2

\* what a request to the language model may raise
ServiceErrors == {"overloaded_error", "api_error"}

\* a call has not yet returned or raised
Generating == pc = "generate" /\ probe.out = <<>>

\* the except clause without its test of the iteration count
ExceptRetriesAlways(p, e) ==
    IF e = "overloaded_error"
    THEN [p EXCEPT !.at = "request",
                   !.attempt = @ + 1,
                   !.delays = Append(@, retry_delay),
                   !.content = <<>>]
    ELSE [p EXCEPT !.out = <<[raised |-> e]>>]

\* `except Exception as e` of generate_content, reached in iteration
\* p.attempt: sleep and go on with the next iteration, or raise e
GenerateExcept(p, e) ==
    IF e = "overloaded_error" /\ p.attempt < max_retries - 1
    THEN [p EXCEPT !.at = "request",
                   !.attempt = @ + 1,
                   !.delays = Append(@, retry_delay),
                   !.content = <<>>]
    ELSE [p EXCEPT !.out = <<[raised |-> e]>>]

\* the iteration ends with BlogContent.objects.create and `return`
GenerateSave(p, text) ==
    [p EXCEPT !.content = text,
              !.out = <<[content |-> text,
                         char_count |-> LenNoSpace(text),
                         is_optimized |-> TRUE]>>]

\* an iteration up to its first request and the verification of the answer
GenerateRequest ==
    /\ Generating
    /\ probe.at = "request"
    /\ LET p == [probe EXCEPT !.calls = @ + 1]
       IN  \/ \E e \in ServiceErrors : probe' = GenerateExcept(p, e)
           \/ \E text \in LlmTexts[keyword] :
                 probe' =
                     IF verify_content_optimization(text, keyword).is_fully_optimized
                     THEN GenerateSave(p, text)
                     ELSE [p EXCEPT !.at = "optimize", !.content = text]
    /\ UNCHANGED <<keyword, pc>>
    /\ UNCHANGED runVars

\* the second request of an iteration, for a text that failed verification
GenerateOptimize ==
    /\ Generating
    /\ probe.at = "optimize"
    /\ LET p == [probe EXCEPT !.calls = @ + 1]
       IN  \/ \E e \in ServiceErrors : probe' = GenerateExcept(p, e)
           \/ \E optimized_text \in LlmTexts[keyword] :
                 LET verification_result ==
                         verify_content_optimization(probe.content, keyword)
                     final_verification ==
                         verify_content_optimization(optimized_text, keyword)
                 IN  probe' =
                         IF \/ final_verification.is_fully_optimized
                            \/ is_optimization_better(final_verification,
                                                      verification_result)
                         THEN GenerateSave(p, optimized_text)
                         ELSE GenerateSave(p, probe.content)
    /\ UNCHANGED <<keyword, pc>>
    /\ UNCHANGED runVars

GenerateInit ==
    /\ keyword \in Keywords
    /\ exists = FALSE
    /\ stored = [content |-> <<>>, char_count |-> 0, is_optimized |-> FALSE]
    /\ rows = {}
    /\ pc = "generate"
    /\ content = <<>>
    /\ attempt = 0
    /\ api_result = <<>>
    /\ best_api_analysis = <<>>
    /\ optimized_content = <<>>
    /\ refs_section = <<>>
    /\ initial_char_valid = FALSE
    /\ morpheme_attempt = 0
    /\ result = <<>>
    /\ llm_calls = 0
    /\ sub_calls = 0
    /\ attempts = <<>>
    /\ enforce_entered = FALSE
    /\ probe = [at |-> "request", attempt |-> 0, calls |-> 0, delays |-> <<>>,
                content |-> <<>>, out |-> <<>>]

GenerateNext == GenerateRequest \/ GenerateOptimize

\* a call of generate_content
GenerateSpec == GenerateInit /\ [][GenerateNext]_vars

ServiceInit == Init \/ GenerateInit

ServiceNext == Next \/ GenerateNext

\* either driver of the text-generation service: a run of the optimizer or
\* a call of generate_content
ServiceSpec == ServiceInit /\ [][ServiceNext]_vars

\* C18: a failing text-generation service is called a bounded number of
\* times.  generate_content starts at most max_retries iterations, a new one
\* only after an overload error and a sleep of retry_delay, makes at most two
\* requests in each, and raises the overload error of the last iteration;
\* every rewrite round of the optimizer makes one request, a failed round
\* sleeps RoundDelay and is skipped, and a run has at most MaxAttempts rounds.
C18_ServiceCallsBounded ==
    /\ llm_calls = Len(attempts)
    /\ llm_calls <= MaxAttempts
    /\ \A i \in 1..Len(attempts) : ~attempts[i].ok => attempts[i].slept = RoundDelay
    /\ pc = "generate" =>
          /\ probe.attempt + 1 <= max_retries
          /\ probe.calls <= 2 * (probe.attempt + 1)
          /\ Len(probe.delays) = probe.attempt
          /\ \A i \in 1..Len(probe.delays) : probe.delays[i] = retry_delay

\* the service was overloaded at every request of generate_content, each
\* time at the second request of the iteration
C18_Witness ==
    /\ pc = "generate"
    /\ probe.out = <<[raised |-> "overloaded_error"]>>
    /\ probe.attempt = max_retries - 1
    /\ probe.calls = 2 * max_retries


\* the distance of a snapshot's character count to the midpoint of the range
MidDistance(snapshot) == Abs(snapshot.char_count - TargetChars)

\* C19: when neither snapshot wins by meeting both constraints alone, the
\* comparators decide by the distance of the character count to the midpoint
\* of the range before they look at the term counts: the value is true when
\* the new snapshot is strictly closer and false when it is strictly farther,
\* whatever the term counts are.
C19_DistanceDecidesBeforeTerms ==
    probe.out # <<>> =>
        LET call == probe.out[1]
        IN  (Satisfies(call.new) <=> Satisfies(call.old)) =>
                /\ MidDistance(call.new) < MidDistance(call.old) => call.value
                /\ MidDistance(call.new) > MidDistance(call.old) => ~call.value


\* the number of characters of a text that are not whitespace
NonSpaceLen(t) ==
    SumRange([i \in 1..Len(t) |-> IF IsSpace(t[i][1]) THEN 0 ELSE t[i][2]],
             1, Len(t))

\* C20: the char_count of a snapshot is the length of the analysed text with
\* all whitespace removed, spaces and newlines alike, so that inserting or
\* deleting a whitespace character never changes it.
C20_CharCountIgnoresAllWhitespace ==
    probe.out # <<>> =>
        probe.out[1].snapshot.char_count = NonSpaceLen(Body(probe.text))


\* ------------------------------------------------------------------------
\* Further properties of the character-count enforcement
\* ------------------------------------------------------------------------
\* a call on a text whose count lies within tolerance of the target
InBandCall ==
    /\ probe.out # <<>>
    /\ TargetChars - probe.out[1].tolerance <= LenNoSpace(probe.content)
    /\ LenNoSpace(probe.content) <= TargetChars + probe.out[1].tolerance

\* C21: the character-count enforcement returns a text whose count lies
\* within [target - tolerance, target + tolerance] as it was given, unit for
\* unit.
C21_InBandUntouched == InBandCall => probe.out[1].text = probe.content

\* a text of several paragraphs above the target, within tolerance 50 of it,
\* went through _enforce_exact_char_count_v2
C21_Witness ==
    /\ InBandCall
    /\ probe.out[1].fn = "_enforce_exact_char_count_v2"
    /\ probe.out[1].tolerance = 50
    /\ LenNoSpace(probe.content) > TargetChars
    /\ Len(SplitParas(probe.content)) >= 4


\* how far a count of n characters lies outside [target - tolerance,
\* target + tolerance]
BandDistance(n, tolerance) ==
    IF n < TargetChars - tolerance THEN TargetChars - tolerance - n
    ELSE IF n > TargetChars + tolerance THEN n - (TargetChars + tolerance)
    ELSE 0

\* C22: one pass of _enforce_exact_char_count_v2 over a text outside the band
\* returns a text strictly closer to the band than the one it was given,
\* whether it had to add or to remove; it never ends farther away on the
\* other side.
C22_PassReducesDistance ==
    (/\ probe.out # <<>>
     /\ probe.out[1].fn = "_enforce_exact_char_count_v2"
     /\ ~InBandCall) =>
        BandDistance(LenNoSpace(probe.out[1].text), probe.out[1].tolerance)
            < BandDistance(LenNoSpace(probe.content), probe.out[1].tolerance)


\* the paragraphs of a text that are no heading paragraphs, in their order
BodiesOf(text) == SelectSeq(SplitParas(text), IsNormalPara)

\* the number of sentences of a paragraph
SentenceCount(p) == Len(SplitSentences(p))

\* C23: removing sentences from a text above the band leaves two sentences
\* or more in every paragraph that had two or more, and leaves a paragraph
\* of one sentence as it was: when every body paragraph of the text had at
\* least two sentences, so has every body paragraph of the result, and a
\* body paragraph of one sentence is found again in the result or is gone
\* as a whole.
C23_TwoSentencesKept ==
    OverLengthCall =>
        LET before == BodiesOf(probe.content)
            after == BodiesOf(probe.out[1].text)
        IN  /\ (\A i \in 1..Len(before) : SentenceCount(before[i]) >= 2)
                  => \A j \in 1..Len(after) : SentenceCount(after[j]) >= 2
            /\ (\A i \in 1..Len(before) : SentenceCount(before[i]) = 1)
                  => IsSubsequence(after, before)


\* ------------------------------------------------------------------------
\* The stages of forced adjustment
\* ------------------------------------------------------------------------
\* the step a run takes from each stage of enforce_seo_optimization, once
\* the text was found not to be valid already
StageOrder ==
    /\ pc = "structure" => pc' = "chars"
    /\ pc = "chars" => pc' = "terms" /\ morpheme_attempt' = 0
    /\ pc = "terms" =>
          IF analyze_content(optimized_content, keyword).is_valid_morphemes
          THEN pc' = "verify" /\ UNCHANGED <<optimized_content, morpheme_attempt>>
          ELSE /\ morpheme_attempt < MaxMorphemeAttempts
               /\ morpheme_attempt' = morpheme_attempt + 1
               /\ pc' = IF morpheme_attempt' = MaxMorphemeAttempts
                        THEN "verify" ELSE "terms"
    /\ pc = "verify" => pc' = "limit"
    /\ pc = "limit" => pc' = "breaks"
    /\ pc = "breaks" => pc' = "finish"

\* C24: forced adjustment of a text that is not already valid goes through
\* its stages in order: the character fix, the term-fix loop of at most
\* three iterations, each on a fresh analysis and the loop ending at the
\* first analysis with all terms valid, then the limit sweep, once, then
\* the return; no path leaves a stage for anything but the next one.
C24_StagesInOrder == [][StageOrder]_vars


\* ------------------------------------------------------------------------
\* Further properties of the term reduction
\* ------------------------------------------------------------------------
\* C25: after the limit sweep with ceiling 20 no significant token of the
\* resulting text, tracked term, other noun or substitute word, is counted
\* more than 20 times in it.
C25_NothingAboveCeiling ==
    (probe.out # <<>> /\ probe.out[1].fn = "_limit_all_morphemes") =>
        OverLimit(probe.out[1].text, keyword, TermMax) = <<>>


\* ------------------------------------------------------------------------
\* Further properties of the comparators
\* ------------------------------------------------------------------------
\* the value of the comparator of the call made, on the same two texts the
\* other way round
Reversed ==
    IF probe.out[1].fn = "_is_seo_result_better"
    THEN is_seo_result_better(analyze_content(probe.old, keyword),
                              analyze_content(probe.new, keyword))
    ELSE is_optimization_better(verify_content_optimization(probe.old, keyword),
                                verify_content_optimization(probe.new, keyword))

\* C26: the comparators are strict: for no two snapshots is each better than
\* the other, and a snapshot is never better than one with the same metrics.
C26_StrictImprovement ==
    probe.out # <<>> =>
        /\ ~(probe.out[1].value /\ Reversed)
        /\ probe.out[1].new = probe.out[1].old => ~probe.out[1].value


\* ------------------------------------------------------------------------
\* The save of a run, one database call at a time
\* ------------------------------------------------------------------------
\* the run variables other than pc, as they stand when no run of the
\* optimizer is under way
RestIdle ==
    /\ content = <<>>
    /\ attempt = 0
    /\ api_result = <<>>
    /\ best_api_analysis = <<>>
    /\ optimized_content = <<>>
    /\ refs_section = <<>>
    /\ initial_char_valid = FALSE
    /\ morpheme_attempt = 0
    /\ result = <<>>
    /\ llm_calls = 0
    /\ sub_calls = 0
    /\ attempts = <<>>
    /\ enforce_entered = FALSE

restVars ==
    <<content, attempt, api_result, best_api_analysis, optimized_content,
      refs_section, initial_char_valid, morpheme_attempt, result, llm_calls,
      sub_calls, attempts, enforce_entered>>

\* the keys of morpheme_counts in the order analyze_content inserts them
RowOrder(kw) ==
    Dedup(<<kw>>
          \o SelectSeq(SplitWs(kw, <<>>), LAMBDA m : " " \in Range(kw) /\ Len(m) >= 2)
          \o SelectSeq(okt_morphs(kw), LAMBDA m : Len(m) >= 2))

\* the rows the loop over morpheme_analysis creates, in its order
RowSeq(a, kw) ==
    LET order == SelectSeq(RowOrder(kw), LAMBDA m : Len(m) >= 2)
    IN  [i \in 1..Len(order) |->
            [morpheme |-> order[i],
             count |-> a.morpheme_analysis[order[i]].count,
             is_valid |-> a.morpheme_analysis[order[i]].is_valid]]

\* the texts enforce_seo_optimization may hand to the save
SaveTexts ==
    [w \in Keywords |-> {TextValidHigh(w), TextTerms22(w), TextLong(w)}]

\* the save is under way
Saving == pc = "saving" /\ probe.out = <<>>

\* blog_content.save() with the new content, count and flag
SaveContent ==
    /\ Saving
    /\ probe.at = "save"
    /\ stored' = [content |-> probe.text,
                  char_count |-> analyze_content(probe.text, keyword).char_count,
                  is_optimized |-> TRUE]
    /\ probe' = [probe EXCEPT !.at = "delete"]
    /\ UNCHANGED <<keyword, exists, rows, pc>>
    /\ UNCHANGED restVars

\* blog_content.morpheme_analyses.all().delete()
SaveDeleteRows ==
    /\ Saving
    /\ probe.at = "delete"
    /\ rows' = {}
    /\ probe' = [probe EXCEPT
                    !.at = "create",
                    !.todo = RowSeq(analyze_content(probe.text, keyword), keyword)]
    /\ UNCHANGED <<keyword, exists, stored, pc>>
    /\ UNCHANGED restVars

\* one MorphemeAnalysis.objects.create of the loop
SaveCreateRow ==
    /\ Saving
    /\ probe.at = "create"
    /\ probe.todo # <<>>
    /\ rows' = rows \cup {Head(probe.todo)}
    /\ probe' = [probe EXCEPT !.todo = Tail(@)]
    /\ UNCHANGED <<keyword, exists, stored, pc>>
    /\ UNCHANGED restVars

\* the loop has ended: the success dict is returned
SaveReturn ==
    /\ Saving
    /\ probe.at = "create"
    /\ probe.todo = <<>>
    /\ probe' = [probe EXCEPT
                    !.out = <<SuccessResult(analyze_content(probe.text, keyword))>>]
    /\ UNCHANGED <<keyword, exists, stored, rows, pc>>
    /\ UNCHANGED restVars

\* the database call the save stands at raises: `except Exception` returns
\* the error dict
SaveRaises ==
    /\ Saving
    /\ probe.at = "create" => probe.todo # <<>>
    /\ probe' = [probe EXCEPT !.out = <<ErrorResult>>]
    /\ UNCHANGED <<keyword, exists, stored, rows, pc>>
    /\ UNCHANGED restVars

SaveInit ==
    /\ keyword \in Keywords
    /\ exists = TRUE
    /\ \E d \in Drafts[keyword] :
          /\ stored = [content |-> d,
                       char_count |-> LenNoSpace(d),
                       is_optimized |-> FALSE]
          /\ rows = RowsOf(analyze_content(d, keyword))
    /\ pc = "saving"
    /\ RestIdle
    /\ \E t \in SaveTexts[keyword] :
          probe = [before |-> [stored |-> stored, rows |-> rows],
                   text |-> t, at |-> "save", todo |-> <<>>, out |-> <<>>]

SaveNext ==
    \/ SaveContent
    \/ SaveDeleteRows
    \/ SaveCreateRow
    \/ SaveReturn
    \/ SaveRaises

\* the end of optimize_existing_content_v3, from the save of the row on
SaveSpec == SaveInit /\ [][SaveNext]_vars

\* C27: when optimize_existing_content_v3 returns an error result, the
\* stored content, count and flag and the set of MorphemeAnalysis rows are
\* what they were before the call, whichever step raised.
C27_ErrorLeavesStoredStateUnchanged ==
    (pc = "saving" /\ probe.out = <<ErrorResult>>) =>
        /\ stored = probe.before.stored
        /\ rows = probe.before.rows


\* ------------------------------------------------------------------------
\* Background optimization jobs (BlogContentViewSet.optimize)
\* ------------------------------------------------------------------------
\* the threads two optimize requests on one content id start
Jobs == {1, 2}

\* the texts the language model may answer a job with
JobTexts == [w \in Keywords |-> {TextValidHigh(w), TextTerms22(w)}]

\* the drafts a job may find stored
JobDrafts == [w \in Keywords |-> {TextValidMid(w), TextTerms25(w), TextShort(w)}]

\* the rows a job creates for a text, in the order of the analysis; `by`
\* stands for the primary key the database gives each new row
JobRows(text, kw, t) ==
    LET a == analyze_morphemes(text, kw, {})
        order == SelectSeq(RowOrder(kw),
                           LAMBDA m : m \in DOMAIN a.morpheme_analysis /\ Len(m) > 1)
    IN  [i \in 1..Len(order) |->
            [morpheme |-> order[i],
             count |-> a.morpheme_analysis[order[i]].count,
             is_valid |-> a.morpheme_analysis[order[i]].is_valid,
             by |-> t]]

\* generator.analyze_morphemes and the character count are functions of the
\* text alone: their results on the texts a job can meet, computed once
JobAnalysis(kw) ==
    [text \in JobDrafts[kw] \cup JobTexts[kw] |->
        [needs_optimization |-> analyze_morphemes(text, kw, {}).needs_optimization,
         char_count |-> LenNoSpace(text),
         rows |-> JobRows(text, kw, 0)]]

\* the rows as job t creates them
RowsBy(todo, t) == [i \in 1..Len(todo) |-> [todo[i] EXCEPT !.by = t]]

\* cache.set(cache_key, status) by job t
Publish(p, t, status) == [p EXCEPT !.pub[t] = Append(@, status)]

\* job t stands at `at`
OptJobAt(t, at) == pc = "optjob" /\ probe.job[t].at = at

\* the first statement of the job: status running, progress 0
OptJobStart(t) ==
    /\ OptJobAt(t, "start")
    /\ probe' = [Publish(probe, t, [status |-> "running", progress |-> 0])
                    EXCEPT !.job[t].at = "read"]
    /\ UNCHANGED <<keyword, exists, stored, rows, pc>>
    /\ UNCHANGED restVars

\* BlogContent.objects.get and analyze_morphemes: the job goes on to the
\* request when a term is out of range, and reports completed otherwise
OptJobRead(t) ==
    /\ OptJobAt(t, "read")
    /\ probe' =
          IF probe.analysis[stored.content].needs_optimization
          THEN [probe EXCEPT !.job[t].at = "llm"]
          ELSE [Publish(probe, t, [status |-> "completed"])
                   EXCEPT !.job[t].at = "end"]
    /\ UNCHANGED <<keyword, exists, stored, rows, pc>>
    /\ UNCHANGED restVars

\* generator.client.messages.create returns a text
OptJobRequest(t) ==
    /\ OptJobAt(t, "llm")
    /\ \E text \in JobTexts[keyword] :
          probe' = [probe EXCEPT !.job[t].at = "save", !.job[t].text = text]
    /\ UNCHANGED <<keyword, exists, stored, rows, pc>>
    /\ UNCHANGED restVars

\* content.save()
OptJobSave(t) ==
    /\ OptJobAt(t, "save")
    /\ stored' = [content |-> probe.job[t].text,
                  char_count |-> probe.analysis[probe.job[t].text].char_count,
                  is_optimized |-> TRUE]
    /\ probe' = [probe EXCEPT !.job[t].at = "delete"]
    /\ UNCHANGED <<keyword, exists, rows, pc>>
    /\ UNCHANGED restVars

\* content.morpheme_analyses.all().delete() and the new analysis
OptJobDelete(t) ==
    /\ OptJobAt(t, "delete")
    /\ rows' = {}
    /\ probe' = [probe EXCEPT
                    !.job[t].at = "create",
                    !.job[t].todo = RowsBy(probe.analysis[probe.job[t].text].rows, t)]
    /\ UNCHANGED <<keyword, exists, stored, pc>>
    /\ UNCHANGED restVars

\* one MorphemeAnalysis.objects.create of the loop
OptJobCreate(t) ==
    /\ OptJobAt(t, "create")
    /\ probe.job[t].todo # <<>>
    /\ rows' = rows \cup {Head(probe.job[t].todo)}
    /\ probe' = [probe EXCEPT !.job[t].todo = Tail(@)]
    /\ UNCHANGED <<keyword, exists, stored, pc>>
    /\ UNCHANGED restVars

\* the loop has ended: status completed
OptJobDone(t) ==
    /\ OptJobAt(t, "create")
    /\ probe.job[t].todo = <<>>
    /\ probe' = [Publish(probe, t, [status |-> "completed"])
                    EXCEPT !.job[t].at = "end"]
    /\ UNCHANGED <<keyword, exists, stored, rows, pc>>
    /\ UNCHANGED restVars

\* the request or a database call of the job raises: `except Exception`
\* publishes status failed
OptJobRaises(t) ==
    /\ pc = "optjob"
    /\ probe.job[t].at \in {"read", "llm", "save", "delete", "create"}
    /\ probe.job[t].at = "create" => probe.job[t].todo # <<>>
    /\ probe' = [Publish(probe, t, [status |-> "failed"])
                    EXCEPT !.job[t].at = "end", !.job[t].raised = TRUE]
    /\ UNCHANGED <<keyword, exists, stored, rows, pc>>
    /\ UNCHANGED restVars

OptJobInit ==
    /\ keyword \in Keywords
    /\ exists = TRUE
    /\ \E d \in JobDrafts[keyword] :
          /\ stored = [content |-> d,
                       char_count |-> LenNoSpace(d),
                       is_optimized |-> FALSE]
          /\ rows = Range(JobRows(d, keyword, 0))
    /\ pc = "optjob"
    /\ RestIdle
    /\ probe = [job |-> [t \in Jobs |->
                            [at |-> "start", text |-> <<>>, todo |-> <<>>,
                             raised |-> FALSE]],
                pub |-> [t \in Jobs |-> <<>>],
                analysis |-> JobAnalysis(keyword)]

OptJobStep(t) ==
    \/ OptJobStart(t)
    \/ OptJobRead(t)
    \/ OptJobRequest(t)
    \/ OptJobSave(t)
    \/ OptJobDelete(t)
    \/ OptJobCreate(t)
    \/ OptJobDone(t)
    \/ OptJobRaises(t)

OptJobNext == \E t \in Jobs : OptJobStep(t)

\* two background optimization jobs on one content id
OptJobSpec == OptJobInit /\ [][OptJobNext]_vars

\* both jobs have ended and neither has raised
BothJobsCompleted ==
    /\ pc = "optjob"
    /\ \A t \in Jobs : probe.job[t].at = "end" /\ ~probe.job[t].raised

Requests == {1, 2}

\* the outcomes of one attempt of generate_content at the language model
RequestOutcomes == {"ok", "overloaded_error", "error"}

\* the ids of the BlogContent rows whose title holds the marker
Placeholders(db) == {row.id : row \in {x \in db : x.placeholder}}

\* filter(user, keyword, title__contains = marker).order_by('-created_at')
\* .first(): the id of the newest placeholder, 0 for None
NewestPlaceholder(db) ==
    IF Placeholders(db) = {} THEN 0
    ELSE CHOOSE i \in Placeholders(db) : \A j \in Placeholders(db) : j <= i

\* the request whose handler created the row with this id, 0 for None
OwnerOf(db, id) ==
    IF id = 0 THEN 0 ELSE (CHOOSE row \in db : row.id = id).req

\* instance.delete() of the row with this id
DeleteRow(db, id) == {row \in db : row.id # id}

\* job r stands at `at`; its thread exists once the handler has started it
GenJobAt(r, at) ==
    /\ pc = "genjob"
    /\ probe.handler[r] # "new"
    /\ probe.job[r].at = at

\* the handler of request r starts the thread
HandlerStart(r) ==
    /\ pc = "genjob"
    /\ probe.handler[r] = "new"
    /\ probe' = [probe EXCEPT !.handler[r] = "started"]
    /\ UNCHANGED <<keyword, exists, stored, rows, pc>>
    /\ UNCHANGED restVars

\* the handler creates the placeholder row after it has started the thread
HandlerPlaceholder(r) ==
    /\ pc = "genjob"
    /\ probe.handler[r] = "started"
    /\ probe' = [probe EXCEPT
                    !.handler[r] = "done",
                    !.db = @ \cup {[id |-> probe.nextid, placeholder |-> TRUE, req |-> r]},
                    !.nextid = @ + 1]
    /\ UNCHANGED <<keyword, exists, stored, rows, pc>>
    /\ UNCHANGED restVars

\* the first statement of the job: status running, progress 0
GenJobStart(r) ==
    /\ GenJobAt(r, "start")
    /\ probe' = [Publish(probe, r, [status |-> "running", progress |-> 0])
                    EXCEPT !.job[r].at = "lookup"]
    /\ UNCHANGED <<keyword, exists, stored, rows, pc>>
    /\ UNCHANGED restVars

\* temp_content is looked up; progress 25 and 50 are published
GenJobLookup(r) ==
    /\ GenJobAt(r, "lookup")
    /\ probe' = [Publish(Publish(probe, r, [status |-> "running", progress |-> 25]),
                         r, [status |-> "running", progress |-> 50])
                    EXCEPT !.job[r].at = "attempt",
                           !.job[r].temp = NewestPlaceholder(probe.db),
                           !.job[r].temp_req = OwnerOf(probe.db, NewestPlaceholder(probe.db))]
    /\ UNCHANGED <<keyword, exists, stored, rows, pc>>
    /\ UNCHANGED restVars

\* an attempt of generate_content: existing_content is looked up, and the
\* requests give a text, or an exception that is retried when it is an
\* overload and an attempt is left, and raised otherwise
GenJobAttempt(r) ==
    /\ GenJobAt(r, "attempt")
    /\ \E e \in RequestOutcomes :
          probe' =
             IF e = "ok"
             THEN [probe EXCEPT !.job[r].at = "write",
                                !.job[r].existing = NewestPlaceholder(probe.db)]
             ELSE IF e = "overloaded_error" /\ probe.job[r].attempt < max_retries - 1
             THEN [probe EXCEPT !.job[r].attempt = @ + 1]
             ELSE [probe EXCEPT !.job[r].at = "except", !.job[r].attempt = 0]
    /\ UNCHANGED <<keyword, exists, stored, rows, pc>>
    /\ UNCHANGED restVars

\* existing_content.delete() and BlogContent.objects.create; the id is
\* returned and the locals of generate_content are gone
GenJobWrite(r) ==
    /\ GenJobAt(r, "write")
    /\ probe' = [probe EXCEPT
                    !.job[r].at = "finish",
                    !.job[r].attempt = 0,
                    !.job[r].existing = 0,
                    !.job[r].content_id = probe.nextid,
                    !.db = DeleteRow(@, probe.job[r].existing)
                              \cup {[id |-> probe.nextid, placeholder |-> FALSE, req |-> r]},
                    !.nextid = @ + 1]
    /\ UNCHANGED <<keyword, exists, stored, rows, pc>>
    /\ UNCHANGED restVars

\* generate_content has returned the id: progress 75 is published,
\* temp_content is deleted when the job has one, status completed
GenJobFinish(r) ==
    /\ GenJobAt(r, "finish")
    /\ probe' = [Publish(Publish(probe, r, [status |-> "running", progress |-> 75]),
                         r, [status |-> "completed", progress |-> 100])
                    EXCEPT !.job[r].at = "end",
                           !.db = IF /\ probe.job[r].temp # 0
                                     /\ probe.job[r].temp # probe.job[r].content_id
                                  THEN DeleteRow(@, probe.job[r].temp)
                                  ELSE @]
    /\ UNCHANGED <<keyword, exists, stored, rows, pc>>
    /\ UNCHANGED restVars

\* a database call of the job raises; temp_content.delete() is called
\* after progress 75 has been published
GenJobRaises(r) ==
    /\ pc = "genjob"
    /\ probe.handler[r] # "new"
    /\ probe.job[r].at \in {"lookup", "write", "finish"}
    /\ probe' = [(IF probe.job[r].at = "finish"
                  THEN Publish(probe, r, [status |-> "running", progress |-> 75])
                  ELSE probe)
                    EXCEPT !.job[r].at = "except",
                           !.job[r].attempt = 0,
                           !.job[r].existing = 0]
    /\ UNCHANGED <<keyword, exists, stored, rows, pc>>
    /\ UNCHANGED restVars

\* an exception handler that writes the placeholder and publishes nothing
ExceptWithoutStatus(r) ==
    /\ GenJobAt(r, "except")
    /\ probe' = [probe
                    EXCEPT !.job[r].at = "end",
                           !.db = IF probe.job[r].temp # 0
                                  THEN DeleteRow(@, probe.job[r].temp)
                                          \cup {[id |-> probe.job[r].temp,
                                                 placeholder |-> TRUE,
                                                 req |-> probe.job[r].temp_req]}
                                  ELSE @]
    /\ UNCHANGED <<keyword, exists, stored, rows, pc>>
    /\ UNCHANGED restVars

\* `except Exception`: temp_content.save() writes the row of the job's
\* placeholder, inserting it when it is no longer there; status failed
GenJobExcept(r) ==
    /\ GenJobAt(r, "except")
    /\ probe' = [Publish(probe, r, [status |-> "failed"])
                    EXCEPT !.job[r].at = "end",
                           !.db = IF probe.job[r].temp # 0
                                  THEN DeleteRow(@, probe.job[r].temp)
                                          \cup {[id |-> probe.job[r].temp,
                                                 placeholder |-> TRUE,
                                                 req |-> probe.job[r].temp_req]}
                                  ELSE @]
    /\ UNCHANGED <<keyword, exists, stored, rows, pc>>
    /\ UNCHANGED restVars


GenJobInit ==
    /\ keyword = KwSimple
    /\ exists = TRUE
    /\ stored = [content |-> <<>>, char_count |-> 0, is_optimized |-> FALSE]
    /\ rows = {}
    /\ pc = "genjob"
    /\ RestIdle
    /\ probe = [handler |-> [r \in Requests |-> "new"],
                job |-> [r \in Requests |->
                            [at |-> "start", temp |-> 0, temp_req |-> 0,
                             existing |-> 0, attempt |-> 0, content_id |-> 0]],
                pub |-> [r \in Requests |-> <<>>],
                db |-> {},
                nextid |-> 1]

GenJobStep(r) ==
    \/ GenJobStart(r)
    \/ GenJobLookup(r)
    \/ GenJobAttempt(r)
    \/ GenJobWrite(r)
    \/ GenJobFinish(r)
    \/ GenJobRaises(r)
    \/ GenJobExcept(r)

GenJobNext ==
    \E r \in Requests :
        \/ HandlerStart(r)
        \/ HandlerPlaceholder(r)
        \/ GenJobStep(r)

\* the handlers and the background jobs of two generate requests
GenJobSpec == GenJobInit /\ [][GenJobNext]_vars

\* the last status job r has published
LastStatus(r) ==
    IF probe.pub[r] = <<>> THEN "none" ELSE probe.pub[r][Len(probe.pub[r])].status

\* C29: once the job of a generate request has published status completed,
\* no placeholder row created by that request is left, however the handler
\* and the jobs interleave.
C29_NoPlaceholderAfterCompleted ==
    pc = "genjob" =>
        \A r \in Requests :
            LastStatus(r) = "completed" =>
                ~\E row \in probe.db : row.placeholder /\ row.req = r


\* ------------------------------------------------------------------------
\* The status protocol of the background jobs
\* ------------------------------------------------------------------------
JobsInit == OptJobInit \/ GenJobInit

JobsNext == OptJobNext \/ GenJobNext

\* the jobs of either kind
JobsSpec == JobsInit /\ [][JobsNext]_vars

\* a started thread runs until its target returns: each statement of a job
\* returns or raises, and the retry loop of generate_content is bounded
FairJobsSpec ==
    /\ JobsSpec
    /\ \A t \in Jobs : WF_vars(OptJobStep(t))
    /\ \A r \in Requests : WF_vars(GenJobStep(r))

TerminalStatuses == {"completed", "failed"}

\* the thread of job j has been started
JobStarted(j) ==
    \/ pc = "optjob"
    \/ pc = "genjob" /\ probe.handler[j] # "new"

\* job j has published a terminal status
JobTerminal(j) ==
    pc \in {"optjob", "genjob"} /\ LastStatus(j) \in TerminalStatuses

\* the statuses one job has published: running first, nothing running after
\* a terminal status, progress values in non-decreasing order
PublishedInOrder(pub) ==
    /\ pub # <<>> => pub[1].status = "running"
    /\ \A i \in 1..Len(pub), j \in 1..Len(pub) :
          i < j =>
             /\ pub[i].status \in TerminalStatuses => pub[j].status # "running"
             /\ ("progress" \in DOMAIN pub[i] /\ "progress" \in DOMAIN pub[j])
                   => pub[i].progress <= pub[j].progress

\* C30: every started background job, of generation or of optimization,
\* publishes running first and in the end a terminal status, completed or
\* failed, also when a statement of the job raises; the statuses of one job
\* never go from a terminal status back to running and its progress values
\* never decrease.
C30_StatusProtocol ==
    /\ [](pc \in {"optjob", "genjob"} =>
             \A j \in Jobs \cup Requests : PublishedInOrder(probe.pub[j]))
    /\ \A j \in Jobs \cup Requests : JobStarted(j) ~> JobTerminal(j)

\* a generation job whose temp_content.delete() raised after progress 75
\* has published failed, and the other job has published completed
C30_Witness ==
    /\ pc = "genjob"
    /\ Len(probe.pub[1]) = 5
    /\ LastStatus(1) = "failed"
    /\ LastStatus(2) = "completed"

====
